---------------------------- MODULE Spec2Model ----------------------------
(***************************************************************************)
(* Model of the AIBL clinical-data builders of                             *)
(* clinica/converters/aibl_to_bids/utils/clinical.py:                      *)
(*   create_participants_tsv_file, create_sessions_tsv_file and            *)
(*   _create_scans_dict.                                                   *)
(*                                                                         *)
(* Text (CSV fields, identifiers, labels, dates) is a sequence of          *)
(* one-character strings, so that parsing and formatting are computed.     *)
(* A pandas value is a tagged record: Str(text), IntV(n), FloatV(n), NaN   *)
(* or None.                                                                *)
(***************************************************************************)
EXTENDS Integers, Sequences, FiniteSets, TLC

VARIABLES
    p_in,              \* participants builder: clinical files, BIDS root listing, flag
    p_status,          \* "start" | "done"
    participants_tsv,  \* rows written to <bids>/participants.tsv
    p_warnings,        \* subjects for which cprint(..., lvl="warning") was called, in order
    s_in,              \* sessions builder: clinical files and BIDS tree
    s_pos,             \* position of the subject loop of create_sessions_tsv_file
    s_status,          \* "start" | "running" | "done" | "failed"
    sessions_tsv,      \* sequence of [subject, rows]: one entry per to_csv call
    s_reads,           \* sequence of location patterns: one entry per read_csv call
    c_in,              \* scans builder: clinical files and BIDS tree
    c_row,             \* position of the mapping-row loop of _create_scans_dict
    c_status,          \* "running" | "done" | "failed"
    scans_dict,        \* subject -> session -> modality group -> field -> value
    a_in,              \* one call of _compute_age_at_exam: [birth_date, exam_date]
    a_out,             \* "pending" | "raised" | the value returned
    b_in,              \* one call of _handle_flutemeta_badline: the fields of the line
    b_out,             \* "pending" | "raised" | the value returned
    bids_dir,          \* _write_scans_tsv: subject -> session -> [folders, tsv] on disk
    w_pc,              \* position of the loops of _write_scans_tsv
    w_status,          \* "session" | "modality" | "done" | "failed"
    scans_df,          \* the rows gathered for the session at hand
    w_calls,           \* sequence of [subject, session]: one entry per to_csv call
    clinical_specifications_folder,    \* the names of the files in the folder
    not_found,         \* the paths named by the FileNotFoundError of _load_specifications
    not_matched,       \* [pattern, folder] named by that of _load_metadata_from_pattern
    g_in,              \* one call of a function decorated with aggregator: [args, kwargs]
    g_out              \* "pending" | "raised" with the error | the value returned

pvars == <<p_in, p_status, participants_tsv, p_warnings>>
svars == <<s_in, s_pos, s_status, sessions_tsv, s_reads>>
cvars == <<c_in, c_row, c_status, scans_dict>>
avars == <<a_in, a_out>>
bvars == <<b_in, b_out>>
wvars == <<bids_dir, w_pc, w_status, scans_df, w_calls>>
evars == <<clinical_specifications_folder, not_found, not_matched>>
gvars == <<g_in, g_out>>
vars == <<pvars, svars, cvars, avars, bvars, wvars, evars, gvars>>

---------------------------------------------------------------------------
(* Bounds of the model *)

\* rows of all clinical files read by the participants builder, taken together
MaxParticipantRows == 2

\* rows of all clinical files read by the sessions builder, taken together
MaxSessionRows == 3

---------------------------------------------------------------------------
(* Text *)

Digits == <<"0", "1", "2", "3", "4", "5", "6", "7", "8", "9">>

DigitValue == [c \in {Digits[i] : i \in 1..10} |-> (CHOOSE i \in 1..10 : Digits[i] = c) - 1]

IsDigit(c) == c \in DOMAIN DigitValue

\* re.fullmatch(r"\d+", s)
IsDigits(s) == Len(s) > 0 /\ \A i \in 1..Len(s) : IsDigit(s[i])

\* a field pandas.read_csv parses as an integer
IsIntText(s) ==
    IF Len(s) > 0 /\ s[1] = "-" THEN IsDigits(Tail(s)) ELSE IsDigits(s)

\* int(s) of the first n characters of a text of digits
RECURSIVE PrefixToNat(_, _)
PrefixToNat(s, n) ==
    IF n = 0 THEN 0 ELSE 10 * PrefixToNat(s, n - 1) + DigitValue[s[n]]

TextToNat(s) == PrefixToNat(s, Len(s))

TextToInt(s) == IF s[1] = "-" THEN 0 - TextToNat(Tail(s)) ELSE TextToNat(s)

RECURSIVE NatToText(_)
NatToText(n) ==
    IF n < 10 THEN <<Digits[n + 1]>>
    ELSE NatToText(n \div 10) \o <<Digits[(n % 10) + 1]>>

\* str(n) of a Python int
IntToText(n) == IF n < 0 THEN <<"-">> \o NatToText(0 - n) ELSE NatToText(n)

NA == <<"n", "/", "a">>
MissingCode == <<"-", "4">>
NanText == <<"n", "a", "n">>

---------------------------------------------------------------------------
(* pandas values *)

Str(s) == [k |-> "str", v |-> s]
IntV(n) == [k |-> "int", v |-> n]
FloatV(n) == [k |-> "float", v |-> n]
NaN == [k |-> "nan"]
None == [k |-> "none"]

IsNumber(x) == x.k \in {"int", "float"}
\* pandas.isna
IsNA(x) == x.k \in {"nan", "none"}

\* dtype pandas.read_csv infers for a column from its fields (an empty field is NaN)
ColumnDtype(fields) ==
    IF \A i \in 1..Len(fields) : fields[i] = <<>> \/ IsIntText(fields[i])
    THEN IF \E i \in 1..Len(fields) : fields[i] = <<>> THEN "float64" ELSE "int64"
    ELSE "object"

ParseField(dtype, field) ==
    IF field = <<>> THEN NaN
    ELSE IF dtype = "int64" THEN IntV(TextToInt(field))
    ELSE IF dtype = "float64" THEN FloatV(TextToInt(field))
    ELSE Str(field)

\* the column `name` of pandas.read_csv(file): one value per row
ReadColumn(file, name) ==
    LET fields == [i \in 1..Len(file) |-> file[i][name]]
    IN  [i \in 1..Len(file) |-> ParseField(ColumnDtype(fields), fields[i])]

\* str(x), as Series.astype(str) applies it to each value
ToStr(x) ==
    IF x.k = "str" THEN x.v
    ELSE IF x.k = "int" THEN IntToText(x.v)
    ELSE IF x.k = "float" THEN IntToText(x.v) \o <<".", "0">>
    ELSE IF x.k = "nan" THEN NanText
    ELSE <<"N", "o", "n", "e">>

AsTypeStr(series) == [i \in 1..Len(series) |-> Str(ToStr(series[i]))]

---------------------------------------------------------------------------
(* Collaborators defined outside the source files at hand *)

SubPrefix == <<"s", "u", "b", "-", "A", "I", "B", "L">>

\* bids_id_factory(StudyName.AIBL).from_original_study_id accepts digits only
CanMapStudyId(x) == IsDigits(x)

FromOriginalStudyId(x) == SubPrefix \o x

\* bids_id_factory(StudyName.AIBL)(bids_id).to_original_study_id()
ToOriginalStudyId(bids_id) == SubSeq(bids_id, Len(SubPrefix) + 1, Len(bids_id))

---------------------------------------------------------------------------
(* _load_specifications *)

SpecificationFiles == {"participant.tsv", "sessions.tsv", "scans.tsv"}

\* clinical_specifications_folder / filename
SpecificationsPath(filename) == "specifications/" \o filename

\* variant: the file is taken to be there
SpecificationsAlwaysExist(folder, filename) == TRUE

\* specifications.exists()
SpecificationsExist(folder, filename) == filename \in folder

\* every specification file is there and no error was raised
SpecificationsPresent ==
    /\ clinical_specifications_folder = SpecificationFiles
    /\ not_found = {}
    /\ not_matched = {}

---------------------------------------------------------------------------
(* _load_metadata_from_pattern: the search of the file *)

\* the folder the builders are handed as clinical_data_dir
ClinicalDataDir == "clinical_data"

\* next(clinical_dir.glob(pattern)) returns a file
PatternMatches(files, pattern) == pattern \in DOMAIN files

\* what the FileNotFoundError raised for StopIteration names
PatternNotFound(pattern) == [pattern |-> pattern, folder |-> ClinicalDataDir]

\* the mapping rows whose pattern matches no file
UnmatchedRows(files, specifications) ==
    {k \in 1..Len(specifications) : ~PatternMatches(files, specifications[k].location)}

\* two mapping rows target the field
IsDuplicated(specifications, field) ==
    \E j, k \in 1..Len(specifications) :
        j # k /\ specifications[j].bids = field /\ specifications[k].bids = field

---------------------------------------------------------------------------
(* create_participants_tsv_file *)

\* the rows of participant.tsv that map an AIBL column, in file order
AiblParticipantRows ==
    << [bids |-> "alternative_id_1", location |-> "aibl_ptdemog_*.csv", column |-> "RID"],
       [bids |-> "date_of_birth", location |-> "aibl_ptdemog_*.csv", column |-> "PTDOB"],
       [bids |-> "sex", location |-> "aibl_ptdemog_*.csv", column |-> "PTGENDER"],
       [bids |-> "apoe_gen1", location |-> "aibl_apoeres_*.csv", column |-> "APGEN1"] >>

\* specifications: the rows of the participant.tsv the folder holds
ParticipantSpecifications == p_in.specifications

\* participant_df[name] = series: the first column gives the frame its index,
\* a later one is aligned on the row position (missing positions are NaN)
AssignColumn(df, first, name, series) ==
    IF first
    THEN [i \in 1..Len(series) |-> (name :> series[i])]
    ELSE [i \in 1..Len(df) |->
            (name :> (IF i <= Len(series) THEN series[i] ELSE NaN)) @@ df[i]]

\* the loop over the mapping rows: the frame after the first k rows
RECURSIVE LoadColumns(_, _, _)
LoadColumns(files, specifications, k) ==
    IF k = 0 THEN <<>>
    ELSE LET row == specifications[k]
         IN  AssignColumn(LoadColumns(files, specifications, k - 1), k = 1, row.bids,
                          AsTypeStr(ReadColumn(files[row.location], row.column)))

\* every alternative_id_1 can be turned into a BIDS identifier
CanInsertParticipantId(df) ==
    \A i \in 1..Len(df) : CanMapStudyId(df[i]["alternative_id_1"].v)

\* insert participant_id and drop alternative_id_1
InsertParticipantId(df) ==
    [i \in 1..Len(df) |->
        ("participant_id" :> Str(FromOriginalStudyId(df[i]["alternative_id_1"].v)))
        @@ [f \in (DOMAIN df[i]) \ {"alternative_id_1"} |-> df[i][f]]]

\* Series.str.extract(r"/(\d{4}).*") of one value
ExtractYear(x) ==
    IF x.k # "str" THEN NaN
    ELSE LET s == x.v
             hits == {i \in 1..Len(s) : /\ s[i] = "/"
                                        /\ i + 4 <= Len(s)
                                        /\ \A j \in 1..4 : IsDigit(s[i + j])}
         IN  IF hits = {} THEN NaN
             ELSE LET i == CHOOSE h \in hits : \A g \in hits : h <= g
                  IN  Str(SubSeq(s, i + 1, i + 4))

\* Series.map({"1": "M", "2": "F"}) of one value
MapSex(x) ==
    IF x = Str(<<"1">>) THEN Str(<<"M">>)
    ELSE IF x = Str(<<"2">>) THEN Str(<<"F">>)
    ELSE NaN

\* fillna("n/a") then replace("-4", "n/a") of one value
NormalizeNA(x) ==
    IF IsNA(x) THEN Str(NA)
    ELSE IF x = Str(MissingCode) THEN Str(NA)
    ELSE x

NormalizeParticipants(df) ==
    [i \in 1..Len(df) |->
        [f \in DOMAIN df[i] |->
            NormalizeNA(IF f = "date_of_birth" THEN ExtractYear(df[i][f])
                        ELSE IF f = "sex" THEN MapSex(df[i][f])
                        ELSE df[i][f])]]

InIndex(df, subject) == \E i \in 1..Len(df) : df[i]["participant_id"] = Str(subject)

\* MissingParticipant without the assignment of participant_id
MissingParticipantAllNA(df, subject) == [f \in DOMAIN df[1] |-> Str(NA)]

\* participant_df.loc[subject] = "n/a"; participant_df.loc[subject, "participant_id"] = subject
MissingParticipant(df, subject) ==
    [f \in DOMAIN df[1] |-> IF f = "participant_id" THEN Str(subject) ELSE Str(NA)]

\* the loop over subjects_to_keep: frame and warnings after the first k subjects
RECURSIVE AddMissingParticipants(_, _, _)
AddMissingParticipants(df, subjects, k) ==
    IF k = 0 THEN [df |-> df, warnings |-> <<>>]
    ELSE LET before == AddMissingParticipants(df, subjects, k - 1)
         IN  IF InIndex(before.df, subjects[k]) THEN before
             ELSE [df |-> Append(before.df, MissingParticipant(df, subjects[k])),
                   warnings |-> Append(before.warnings, subjects[k])]

\* Loc without the restriction to the requested labels
LocKeepsEveryRow(df, subjects, k) == df

\* participant_df.loc[subjects]: for each label in turn, all the rows it indexes
RECURSIVE Loc(_, _, _)
Loc(df, subjects, k) ==
    IF k = 0 THEN <<>>
    ELSE Loc(df, subjects, k - 1)
         \o SelectSeq(df, LAMBDA r : r["participant_id"] = Str(subjects[k]))

\* the frame before reconciliation with the BIDS root
JoinedParticipants(files) ==
    NormalizeParticipants(InsertParticipantId(
        LoadColumns(files, ParticipantSpecifications, Len(ParticipantSpecifications))))

CreateParticipantsTsvFile ==
    /\ p_status = "start"
    /\ LET loaded == LoadColumns(p_in.files, ParticipantSpecifications,
                                 Len(ParticipantSpecifications))
       IN  IF ~SpecificationsExist(clinical_specifications_folder, "participant.tsv")
           THEN /\ p_status' = "failed"
                /\ not_found' = not_found \cup {SpecificationsPath("participant.tsv")}
                /\ UNCHANGED <<participants_tsv, p_warnings, not_matched>>
           ELSE IF UnmatchedRows(p_in.files, ParticipantSpecifications) # {}
           THEN /\ p_status' = "failed"
                /\ \E k \in UnmatchedRows(p_in.files, ParticipantSpecifications) :
                      /\ \A j \in UnmatchedRows(p_in.files, ParticipantSpecifications) : k <= j
                      /\ not_matched' = not_matched
                            \cup {PatternNotFound(ParticipantSpecifications[k].location)}
                /\ UNCHANGED <<participants_tsv, p_warnings, not_found>>
           ELSE IF ~CanInsertParticipantId(loaded)
           THEN /\ p_status' = "failed"
                /\ UNCHANGED <<participants_tsv, p_warnings, not_found, not_matched>>
           ELSE LET df == JoinedParticipants(p_in.files)
                    kept == AddMissingParticipants(df, p_in.bids, Len(p_in.bids))
                IN  /\ p_status' = "done"
                    /\ IF p_in.delete_non_bids_info
                       THEN /\ participants_tsv' = Loc(kept.df, p_in.bids, Len(p_in.bids))
                            /\ p_warnings' = kept.warnings
                       ELSE /\ participants_tsv' = df
                            /\ p_warnings' = <<>>
                    /\ UNCHANGED <<not_found, not_matched>>
    /\ UNCHANGED <<p_in, svars, cvars, avars, bvars, gvars, wvars,
                   clinical_specifications_folder>>

---------------------------------------------------------------------------
(* Inputs of the participants builder *)

\* rows of aibl_ptdemog_*.csv
PtdemogRows ==
    [RID : {<<"1">>, <<"2">>},
     PTDOB : {<<"/", "1", "9", "5", "0">>, <<>>},
     PTGENDER : {<<"1">>, MissingCode, <<>>}]

\* rows of aibl_apoeres_*.csv
ApoeresRows ==
    [RID : {<<"1">>, <<"2">>},
     APGEN1 : {<<"3">>, MissingCode, <<>>}]

\* what bids_path.glob("sub-*") returns, in the order it returns it
BidsListings ==
    LET s1 == FromOriginalStudyId(<<"1">>)
        s3 == FromOriginalStudyId(<<"3">>)
    IN  {<<s1>>, <<s1, s3>>, <<s3, s1>>}

\* the file sizes within the bound: the demographics file has at least one row
ParticipantFileSizes ==
    {n \in (1..MaxParticipantRows) \X (0..MaxParticipantRows) :
        n[1] + n[2] <= MaxParticipantRows}

IdleP ==
    /\ p_in = <<>>
    /\ p_status = "idle"
    /\ participants_tsv = <<>>
    /\ p_warnings = <<>>

IdleS ==
    /\ s_in = <<>>
    /\ s_pos = 0
    /\ s_status = "idle"
    /\ sessions_tsv = <<>>
    /\ s_reads = <<>>

IdleC ==
    /\ c_in = <<>>
    /\ c_row = 0
    /\ c_status = "idle"
    /\ scans_dict = <<>>

IdleA ==
    /\ a_in = <<>>
    /\ a_out = [k |-> "idle"]

IdleB ==
    /\ b_in = <<>>
    /\ b_out = [k |-> "idle"]

IdleG ==
    /\ g_in = <<>>
    /\ g_out = [k |-> "idle"]

IdleW ==
    /\ bids_dir = <<>>
    /\ w_pc = <<>>
    /\ w_status = "idle"
    /\ scans_df = <<>>
    /\ w_calls = <<>>

InitParticipants ==
    /\ SpecificationsPresent
    /\ \E n \in ParticipantFileSizes :
         \E ptdemog \in [1..n[1] -> PtdemogRows], apoeres \in [1..n[2] -> ApoeresRows],
            bids \in BidsListings, flag \in BOOLEAN :
                p_in = [files |-> ("aibl_ptdemog_*.csv" :> ptdemog)
                                  @@ ("aibl_apoeres_*.csv" :> apoeres),
                        specifications |-> AiblParticipantRows,
                        bids |-> bids, delete_non_bids_info |-> flag]
    /\ p_status = "start"
    /\ participants_tsv = <<>>
    /\ p_warnings = <<>>
    /\ IdleS
    /\ IdleC
    /\ IdleA
    /\ IdleB
    /\ IdleG
    /\ IdleW

NextParticipants == CreateParticipantsTsvFile

SpecParticipants == InitParticipants /\ [][NextParticipants]_vars

---------------------------------------------------------------------------
(* _handle_flutemeta_badline *)

Measured == <<"m", "e", "a", "s", "u", "r", "e", "d">>

\* "AUSTIN AC CT Brain  H19s"
AustinText ==
    <<"A", "U", "S", "T", "I", "N", " ", "A", "C", " ", "C", "T", " ",
      "B", "r", "a", "i", "n", " ", " ", "H", "1", "9", "s">>

\* a Python list returned by the handler
List(fields) == [k |-> "list", v |-> fields]

\* line[-3] and line[-2] exist
CanHandleFlutemetaBadline(line) == Len(line) >= 3

\* variant: the free text is dropped and nothing is put in its place
HandleFlutemetaBadlineDropsText(line) ==
    IF line[Len(line) - 2] = Measured /\ line[Len(line) - 1] = AustinText
    THEN List(SubSeq(line, 1, Len(line) - 2) \o <<line[Len(line)]>>)
    ELSE None

\* the list returned for the known shape; None (no return statement) otherwise
HandleFlutemetaBadline(line) ==
    IF line[Len(line) - 2] = Measured /\ line[Len(line) - 1] = AustinText
    THEN List(SubSeq(line, 1, Len(line) - 3) \o <<MissingCode, line[Len(line)]>>)
    ELSE None

---------------------------------------------------------------------------
(* pandas.read_csv of a clinical file *)

\* the columns of a metadata file: the two last ones hold a coded reason and a flag
MetaHeader == <<"RID", "VISCODE", "EXAMDATE", "REASON", "DONE">>

\* a line with too many fields
IsBadLine(line) == Len(line) > Len(MetaHeader)

\* the row of the frame for the fields of a line: a short line is completed with
\* empty fields, the fields after the last column are dropped
RowOfFields(fields) ==
    [name \in {MetaHeader[i] : i \in 1..Len(MetaHeader)} |->
        LET i == CHOOSE j \in 1..Len(MetaHeader) : MetaHeader[j] = name
        IN  IF i <= Len(fields) THEN fields[i] ELSE <<>>]

\* what becomes of one line: a row, no row, or a parse error
ReadLine(line, on_bad_lines) ==
    IF ~IsBadLine(line) THEN [ok |-> TRUE, rows |-> <<RowOfFields(line)>>]
    ELSE IF on_bad_lines = "error" THEN [ok |-> FALSE, rows |-> <<>>]
    ELSE IF ~CanHandleFlutemetaBadline(line) THEN [ok |-> FALSE, rows |-> <<>>]
    ELSE LET repaired == HandleFlutemetaBadline(line)
         IN  IF repaired = None THEN [ok |-> TRUE, rows |-> <<>>]
             ELSE [ok |-> TRUE, rows |-> <<RowOfFields(repaired.v)>>]

\* the frame read from the first n lines of the file: [ok, rows]
RECURSIVE ReadLines(_, _, _)
ReadLines(lines, on_bad_lines, n) ==
    IF n = 0 THEN [ok |-> TRUE, rows |-> <<>>]
    ELSE LET before == ReadLines(lines, on_bad_lines, n - 1)
             this == ReadLine(lines[n], on_bad_lines)
         IN  IF before.ok /\ this.ok
             THEN [ok |-> TRUE, rows |-> before.rows \o this.rows]
             ELSE [ok |-> FALSE, rows |-> <<>>]

\* pd.read_csv(..., on_bad_lines=on_bad_lines)
ReadCsv(lines, on_bad_lines) == ReadLines(lines, on_bad_lines, Len(lines))

---------------------------------------------------------------------------
(* Visit codes and session labels *)

SessionPrefix == <<"s", "e", "s", "-", "M">>

Baseline == <<"b", "l">>

\* viscode_to_session raises ValueError unless the code is "bl" or m<digits>
CanConvertViscode(viscode) ==
    \/ viscode = Baseline
    \/ /\ Len(viscode) >= 2
       /\ viscode[1] \in {"m", "M"}
       /\ IsDigits(Tail(viscode))

\* f"{n:03d}"
ZeroPad3(n) ==
    IF n < 10 THEN <<"0", "0">> \o NatToText(n)
    ELSE IF n < 100 THEN <<"0">> \o NatToText(n)
    ELSE NatToText(n)

ViscodeToSession(viscode) ==
    IF viscode = Baseline THEN SessionPrefix \o <<"0", "0", "0">>
    ELSE SessionPrefix \o ZeroPad3(TextToNat(Tail(viscode)))

\* the characters of a session label, in code-point order
CharOrder == <<"-", "0", "1", "2", "3", "4", "5", "6", "7", "8", "9", "M", "e", "s">>

CharRank == [c \in {CharOrder[i] : i \in 1..Len(CharOrder)} |-> CHOOSE i \in 1..Len(CharOrder) : CharOrder[i] = c]

\* a < b for Python str
TextLess(a, b) ==
    LET n == IF Len(a) < Len(b) THEN Len(a) ELSE Len(b)
        differ == {i \in 1..n : a[i] # b[i]}
    IN  IF differ = {} THEN Len(a) < Len(b)
        ELSE LET first == CHOOSE i \in differ : \A j \in differ : i <= j
             IN  CharRank[a[first]] < CharRank[b[first]]

---------------------------------------------------------------------------
(* create_sessions_tsv_file *)

\* the rows of sessions.tsv that map an AIBL column, in file order
AiblSessionRows ==
    << [bids |-> "examination_date", location |-> "aibl_neurobat_*.csv", column |-> "EXAMDATE"],
       [bids |-> "date_of_birth", location |-> "aibl_ptdemog_*.csv", column |-> "PTDOB"],
       [bids |-> "diagnosis", location |-> "aibl_pdxconv_*.csv", column |-> "DXCURREN"] >>

\* specifications: the rows of the sessions.tsv the folder holds
SessionSpecifications == s_in.specifications

\* an exception left the iteration after these files were read
Failed(reads) == [ok |-> FALSE, rows |-> <<>>, reads |-> reads, missing |-> {}]

\* the FileNotFoundError of _load_metadata_from_pattern left the iteration
FailedNotFound(reads, pattern) ==
    [ok |-> FALSE, rows |-> <<>>, reads |-> reads, missing |-> {PatternNotFound(pattern)}]

Indices(n) == [i \in 1..n |-> i]

\* the positions of the rows of the file whose RID equals rid, in file order
RowsOfRid(file, rid) ==
    LET rids == ReadColumn(file, "RID")
    IN  SelectSeq(Indices(Len(file)), LAMBDA i : IsNumber(rids[i]) /\ rids[i].v = rid)

\* viscode_to_session succeeds on every selected row
CanFormatMetadataForRid(file, rid) ==
    LET viscodes == ReadColumn(file, "VISCODE")
        mine == RowsOfRid(file, rid)
    IN  \A n \in 1..Len(mine) :
            viscodes[mine[n]].k = "str" /\ CanConvertViscode(viscodes[mine[n]].v)

\* the extract: one entry per row of the subject, indexed by session label
FormatMetadataForRid(file, rid, source_metadata) ==
    LET viscodes == ReadColumn(file, "VISCODE")
        values == ReadColumn(file, source_metadata)
        mine == RowsOfRid(file, rid)
    IN  [n \in 1..Len(mine) |->
            [index |-> ViscodeToSession(viscodes[mine[n]].v), value |-> values[mine[n]]]]

HasDuplicateIndex(data) ==
    \E m, n \in 1..Len(data) : m # n /\ data[m].index = data[n].index

\* variant: an inner join, which keeps only the labels the extract has
ConcatInnerJoin(sessions, columns, data, name) ==
    LET kept == SelectSeq(sessions, LAMBDA r : \E n \in 1..Len(data) : data[n].index = r.index)
    IN  [i \in 1..Len(kept) |->
            [index |-> kept[i].index,
             row |-> (name :> data[CHOOSE n \in 1..Len(data) : data[n].index = kept[i].index].value)
                     @@ kept[i].row]]

\* pd.concat([sessions, data], axis=1) for a data frame whose index is unique:
\* the outer join on the index; labels only in data are appended
Concat(sessions, columns, data, name) ==
    LET known == {sessions[i].index : i \in 1..Len(sessions)}
        ValueAt(label) ==
            IF \E n \in 1..Len(data) : data[n].index = label
            THEN data[CHOOSE n \in 1..Len(data) : data[n].index = label].value
            ELSE NaN
        extended == [i \in 1..Len(sessions) |->
                        [index |-> sessions[i].index,
                         row |-> (name :> ValueAt(sessions[i].index)) @@ sessions[i].row]]
        fresh == SelectSeq(data, LAMBDA d : d.index \notin known)
        appended == [n \in 1..Len(fresh) |->
                        [index |-> fresh[n].index,
                         row |-> (name :> fresh[n].value) @@ [f \in columns |-> NaN]]]
    IN  extended \o appended

ColumnsAfter(k) == {"session_id"} \cup {SessionSpecifications[j].bids : j \in 1..k}

\* the loop over the mapping rows: the sessions frame after the first k rows, and
\* the files read for them, one per mapping row
RECURSIVE JoinSessions(_, _, _, _)
JoinSessions(files, rid, bids_sessions, k) ==
    IF k = 0
    THEN [ok |-> TRUE,
          rows |-> [i \in 1..Len(bids_sessions) |->
                      [index |-> bids_sessions[i],
                       row |-> ("session_id" :> Str(bids_sessions[i]))]],
          reads |-> <<>>]
    ELSE LET before == JoinSessions(files, rid, bids_sessions, k - 1)
             spec == SessionSpecifications[k]
             file == files[spec.location]
             reads == Append(before.reads, spec.location)
         IN  IF ~before.ok THEN before
             ELSE IF ~PatternMatches(files, spec.location)
             THEN FailedNotFound(before.reads, spec.location)
             ELSE IF ~CanFormatMetadataForRid(file, rid) THEN Failed(reads)
             ELSE LET data == FormatMetadataForRid(file, rid, spec.column)
                  IN  IF HasDuplicateIndex(data) THEN Failed(reads)
                      ELSE [ok |-> TRUE,
                            rows |-> Concat(before.rows, ColumnsAfter(k - 1), data, spec.bids),
                            reads |-> reads]

\* sessions.sort_index(): the index is unique
SortIndex(rows) ==
    LET labels == [i \in 1..Len(rows) |-> rows[i].index]
        rank == [i \in 1..Len(rows) |-> 1 + Cardinality({j \in 1..Len(rows) : TextLess(labels[j], labels[i])})]
    IN  [n \in 1..Len(rows) |-> rows[CHOOSE i \in 1..Len(rows) : rank[i] = n]]

\* sessions.replace([-4, "-4", np.nan], None) of one value
ReplaceMissing(x) ==
    IF x.k = "nan" THEN None
    ELSE IF IsNumber(x) /\ x.v = -4 THEN None
    ELSE IF x = Str(MissingCode) THEN None
    ELSE x

\* variant: every code other than 1 and 2 is read as dementia
MapDiagnosisOtherIsAD(diagnosis) ==
    IF IsNumber(diagnosis) /\ diagnosis.v = 1 THEN Str(<<"C", "N">>)
    ELSE IF IsNumber(diagnosis) /\ diagnosis.v = 2 THEN Str(<<"M", "C", "I">>)
    ELSE Str(<<"A", "D">>)

MapDiagnosis(diagnosis) ==
    IF IsNumber(diagnosis) /\ diagnosis.v = 1 THEN Str(<<"C", "N">>)
    ELSE IF IsNumber(diagnosis) /\ diagnosis.v = 2 THEN Str(<<"M", "C", "I">>)
    ELSE IF IsNumber(diagnosis) /\ diagnosis.v = 3 THEN Str(<<"A", "D">>)
    ELSE Str(NA)

\* bool(x) of a Python value: NaN is a non-zero float
Truthy(x) ==
    IF x.k = "none" THEN FALSE
    ELSE IF x.k = "nan" THEN TRUE
    ELSE IF x.k = "str" THEN Len(x.v) > 0
    ELSE x.v # 0

---------------------------------------------------------------------------
(* Dates *)

Slashes(s) == {i \in 1..Len(s) : s[i] = "/"}

\* datetime.strptime(s, "/%Y") succeeds
IsBirthText(s) ==
    /\ Len(s) = 5
    /\ s[1] = "/"
    /\ IsDigits(Tail(s))
    /\ TextToNat(Tail(s)) >= 1

BirthYear(s) == TextToNat(Tail(s))

FirstSlash(s) == CHOOSE i \in Slashes(s) : \A j \in Slashes(s) : i <= j

LastSlash(s) == CHOOSE i \in Slashes(s) : \A j \in Slashes(s) : i >= j

MonthText(s) == SubSeq(s, 1, FirstSlash(s) - 1)

DayText(s) == SubSeq(s, FirstSlash(s) + 1, LastSlash(s) - 1)

YearText(s) == SubSeq(s, LastSlash(s) + 1, Len(s))

IsLeapYear(y) == (y % 4 = 0 /\ y % 100 # 0) \/ y % 400 = 0

DaysInMonth(m, y) ==
    IF m = 2 THEN (IF IsLeapYear(y) THEN 29 ELSE 28)
    ELSE IF m \in {4, 6, 9, 11} THEN 30
    ELSE 31

\* datetime.strptime(s, "%m/%d/%Y") succeeds
IsExamText(s) ==
    /\ Cardinality(Slashes(s)) = 2
    /\ LET month == MonthText(s)
           day == DayText(s)
           year == YearText(s)
       IN  /\ IsDigits(month) /\ Len(month) <= 2
           /\ IsDigits(day) /\ Len(day) <= 2
           /\ IsDigits(year) /\ Len(year) = 4
           /\ TextToNat(year) >= 1
           /\ TextToNat(month) \in 1..12
           /\ TextToNat(day) \in 1..DaysInMonth(TextToNat(month), TextToNat(year))

ExamYear(s) == TextToNat(YearText(s))

\* _compute_age_at_exam returns without raising
CanComputeAgeAtExam(birth_date, exam_date) ==
    (Truthy(birth_date) /\ Truthy(exam_date)) =>
        /\ birth_date.k = "str" /\ IsBirthText(birth_date.v)
        /\ exam_date.k = "str" /\ IsExamText(exam_date.v)

\* variant: the birthday is taken to fall on the first of July
ComputeAgeAtExamByBirthday(birth_date, exam_date) ==
    IF Truthy(birth_date) /\ Truthy(exam_date)
    THEN IntV(ExamYear(exam_date.v) - BirthYear(birth_date.v)
              - (IF TextToNat(MonthText(exam_date.v)) < 7 THEN 1 ELSE 0))
    ELSE None

ComputeAgeAtExam(birth_date, exam_date) ==
    IF Truthy(birth_date) /\ Truthy(exam_date)
    THEN IntV(ExamYear(exam_date.v) - BirthYear(birth_date.v))
    ELSE None

---------------------------------------------------------------------------
(* Examination dates *)

\* the patterns of _get_csv_files_for_alternative_exam_date, in order
AlternativeExamDatePatterns ==
    << "aibl_mri3meta_*.csv", "aibl_mrimeta_*.csv", "aibl_cdr_*.csv",
       "aibl_flutemeta_*.csv", "aibl_mmse_*.csv", "aibl_pibmeta_*.csv" >>

\* the files the generator yields: a pattern that matches no file is skipped
CsvFilesForAlternativeExamDate(files) ==
    SelectSeq(AlternativeExamDatePatterns, LAMBDA pattern : pattern \in DOMAIN files)

\* csv_data.VISCODE.apply(viscode_to_session) succeeds on every row of the file
CanReadSessions(file) ==
    LET viscodes == ReadColumn(file, "VISCODE")
    IN  \A i \in 1..Len(file) :
            viscodes[i].k = "str" /\ CanConvertViscode(viscodes[i].v)

\* the rows of the file for this subject and session, in file order
ExamDateRows(file, rid, session_id) ==
    LET rids == ReadColumn(file, "RID")
        viscodes == ReadColumn(file, "VISCODE")
    IN  SelectSeq(Indices(Len(file)),
                  LAMBDA i : /\ IsNumber(rids[i]) /\ rids[i].v = rid
                             /\ ViscodeToSession(viscodes[i].v) = session_id)

\* the loop over the files from the k-th on: [ok, value, reads]; reads are the files
\* read, in order
RECURSIVE FindExamDateInOtherCsvFiles(_, _, _, _)
FindExamDateInOtherCsvFiles(files, rid, session_id, k) ==
    LET csvs == CsvFilesForAlternativeExamDate(files)
    IN  IF k > Len(csvs) THEN [ok |-> TRUE, value |-> None, reads |-> <<>>]
        ELSE LET csv_data == ReadCsv(files[csvs[k]], "error")
                 file == csv_data.rows
             IN  IF ~csv_data.ok THEN [ok |-> FALSE, value |-> None, reads |-> <<csvs[k]>>]
                 ELSE IF ~CanReadSessions(file)
                 THEN [ok |-> FALSE, value |-> None, reads |-> <<csvs[k]>>]
                 ELSE LET exam_date == ExamDateRows(file, rid, session_id)
                          dates == ReadColumn(file, "EXAMDATE")
                      IN  IF Len(exam_date) > 0 /\ dates[exam_date[1]] # Str(MissingCode)
                          THEN [ok |-> TRUE, value |-> dates[exam_date[1]],
                                reads |-> <<csvs[k]>>]
                          ELSE LET next == FindExamDateInOtherCsvFiles(files, rid,
                                                                       session_id, k + 1)
                               IN  [next EXCEPT !.reads = <<csvs[k]>> \o @]

CompleteExaminationDates(files, rid, session_id, examination_date) ==
    IF Truthy(examination_date)
    THEN [ok |-> TRUE, value |-> examination_date, reads |-> <<>>]
    ELSE IF Truthy(session_id)
         THEN FindExamDateInOtherCsvFiles(files, rid, session_id.v, 1)
         ELSE [ok |-> TRUE, value |-> None, reads |-> <<>>]

---------------------------------------------------------------------------
(* Age *)

\* Series.ffill(): the last value before position i that is not NA, if any
FFill(column) ==
    LET known == {j \in 1..Len(column) : ~IsNA(column[j])}
    IN  [i \in 1..Len(column) |->
            LET before == {j \in known : j <= i}
            IN  IF before = {} THEN column[i]
                ELSE column[CHOOSE j \in before : \A l \in before : l <= j]]

\* the Series that DataFrame.apply(..., axis=1) builds from its results: numbers
\* next to None or NaN, with no text among them, become floats next to NaN
ApplyResult(results) ==
    IF /\ \A i \in 1..Len(results) : results[i].k # "str"
       /\ \E i \in 1..Len(results) : IsNumber(results[i])
       /\ \E i \in 1..Len(results) : ~(results[i].k = "int")
    THEN [i \in 1..Len(results) |->
            IF IsNA(results[i]) THEN NaN ELSE FloatV(results[i].v)]
    ELSE results

BirthDates(rows) == [i \in 1..Len(rows) |-> rows[i].row["date_of_birth"]]

\* len(df["date_of_birth"].dropna().unique()) <= 1
BirthDateIsUnambiguous(rows) ==
    LET births == BirthDates(rows)
    IN  Cardinality({births[i] : i \in {j \in 1..Len(rows) : ~IsNA(births[j])}}) <= 1

\* no call of _compute_age_at_exam raises
CanSetAgeFromBirth(rows) ==
    LET births == FFill(BirthDates(rows))
    IN  BirthDateIsUnambiguous(rows) =>
            \A i \in 1..Len(rows) :
                CanComputeAgeAtExam(births[i], rows[i].row["examination_date"])

\* variant: the first birth date is used even when the rows disagree
SetAgeFromBirthIgnoringAmbiguity(rows) ==
    LET births == FFill(BirthDates(rows))
    IN  [i \in 1..Len(rows) |->
            [index |-> rows[i].index,
             row |-> ("age" :> (IF /\ Truthy(births[i]) /\ births[i].k = "str"
                                   /\ IsBirthText(births[i].v)
                                   /\ rows[i].row["examination_date"].k = "str"
                                   /\ IsExamText(rows[i].row["examination_date"].v)
                                THEN ComputeAgeAtExam(births[i], rows[i].row["examination_date"])
                                ELSE None))
                     @@ [f \in (DOMAIN rows[i].row) \ {"date_of_birth"} |-> rows[i].row[f]]]]

SetAgeFromBirth(rows) ==
    LET births == FFill(BirthDates(rows))
        ages == IF BirthDateIsUnambiguous(rows)
                THEN ApplyResult([i \in 1..Len(rows) |->
                        ComputeAgeAtExam(births[i], rows[i].row["examination_date"])])
                ELSE [i \in 1..Len(rows) |-> None]
    IN  [i \in 1..Len(rows) |->
            [index |-> rows[i].index,
             row |-> ("age" :> ages[i])
                     @@ [f \in (DOMAIN rows[i].row) \ {"date_of_birth"} |-> rows[i].row[f]]]]

---------------------------------------------------------------------------
(* One subject of create_sessions_tsv_file *)

\* sessions.replace([-4, "-4", np.nan], None, inplace=True)
ReplaceRows(rows) ==
    [i \in 1..Len(rows) |->
        [index |-> rows[i].index,
         row |-> [f \in DOMAIN rows[i].row |-> ReplaceMissing(rows[i].row[f])]]]

\* sessions["diagnosis"] = sessions.diagnosis.apply(lambda x: _map_diagnosis(x))
DiagnosisRows(rows) ==
    [i \in 1..Len(rows) |->
        [index |-> rows[i].index,
         row |-> [rows[i].row EXCEPT !["diagnosis"] = MapDiagnosis(@)]]]

\* sessions.fillna("n/a", inplace=True)
FillRows(rows) ==
    [i \in 1..Len(rows) |->
        [index |-> rows[i].index,
         row |-> [f \in DOMAIN rows[i].row |->
                    IF IsNA(rows[i].row[f]) THEN Str(NA) ELSE rows[i].row[f]]]]

\* variant: no row is dropped
KeepEverySession(rows) == rows

\* sessions.dropna(subset=["session_id"])
DropUnknownSessions(rows) == SelectSeq(rows, LAMBDA r : ~IsNA(r.row["session_id"]))

\* the joined frame sorted, with the missing values replaced and the diagnosis mapped
MappedSessions(unsorted) == DiagnosisRows(ReplaceRows(SortIndex(unsorted)))

\* the files read while the dates of the rows up to the i-th are completed: the
\* apply ends at the first row that raises
RECURSIVE CompletionReads(_, _)
CompletionReads(found, i) ==
    IF i = 0 THEN <<>>
    ELSE IF \E j \in 1..(i - 1) : ~found[j].ok THEN CompletionReads(found, i - 1)
    ELSE CompletionReads(found, i - 1) \o found[i].reads

\* the frame of one subject from the join to the write, and the files read for it:
\* [ok, rows, reads]
SubjectSessions(files, rid, bids_sessions) ==
    LET joined == JoinSessions(files, rid, bids_sessions, Len(SessionSpecifications))
    IN  IF ~joined.ok THEN joined
        ELSE IF \/ IsDuplicated(SessionSpecifications, "diagnosis")
                \/ IsDuplicated(SessionSpecifications, "examination_date")
        THEN Failed(joined.reads)
        ELSE
        LET mapped == MappedSessions(joined.rows)
            found == [i \in 1..Len(mapped) |->
                        CompleteExaminationDates(files, rid, mapped[i].row["session_id"],
                                                 mapped[i].row["examination_date"])]
            reads == joined.reads \o CompletionReads(found, Len(mapped))
        IN  IF \E i \in 1..Len(mapped) : ~found[i].ok THEN Failed(reads)
            ELSE
            LET results == [i \in 1..Len(mapped) |-> found[i].value]
                dates == ApplyResult(results)
                completed == [i \in 1..Len(mapped) |->
                                [index |-> mapped[i].index,
                                 row |-> [mapped[i].row EXCEPT !["examination_date"] = dates[i]]]]
            IN  IF \/ IsDuplicated(SessionSpecifications, "date_of_birth")
                   \/ ~CanSetAgeFromBirth(completed)
                THEN Failed(reads)
                ELSE LET aged == SetAgeFromBirth(completed)
                         kept == DropUnknownSessions(aged)
                     IN  [ok |-> TRUE, rows |-> FillRows(kept), reads |-> reads]

\* _load_specifications for sessions.tsv, before the loop over the subjects
LoadSessionsSpecifications ==
    /\ s_status = "start"
    /\ IF SpecificationsExist(clinical_specifications_folder, "sessions.tsv")
       THEN /\ s_status' = "running"
            /\ UNCHANGED not_found
       ELSE /\ s_status' = "failed"
            /\ not_found' = not_found \cup {SpecificationsPath("sessions.tsv")}
    /\ UNCHANGED <<s_in, s_pos, sessions_tsv, s_reads, pvars, cvars, avars, bvars, gvars, wvars,
                   clinical_specifications_folder, not_matched>>

\* one iteration of the loop over get_subjects_from_bids_dataset(bids_dir)
ProcessSubject ==
    /\ s_status = "running"
    /\ s_pos <= Len(s_in.bids)
    /\ \E rid \in {TextToInt(ToOriginalStudyId(s_in.bids[s_pos].subject))} :
       \E result \in {SubjectSessions(s_in.files, rid, s_in.bids[s_pos].sessions)} :
        /\ s_reads' = s_reads \o result.reads
        /\ IF ~result.ok
              THEN /\ s_status' = "failed"
                   /\ not_matched' = not_matched \cup result.missing
                   /\ UNCHANGED <<s_pos, sessions_tsv>>
              ELSE /\ UNCHANGED not_matched
                   /\ sessions_tsv' =
                         Append(sessions_tsv,
                                [subject |-> FromOriginalStudyId(IntToText(rid)),
                                 rows |-> [i \in 1..Len(result.rows) |-> result.rows[i].row]])
                   /\ s_pos' = s_pos + 1
                   /\ s_status' = IF s_pos = Len(s_in.bids) THEN "done" ELSE "running"
    /\ UNCHANGED <<s_in, pvars, cvars, avars, bvars, gvars, wvars,
                   clinical_specifications_folder, not_found>>

---------------------------------------------------------------------------
(* Inputs of the sessions builder *)

M000 == ViscodeToSession(Baseline)

M018 == ViscodeToSession(<<"m", "1", "8">>)

ExamDate2010 == <<"0", "6", "/", "1", "5", "/", "2", "0", "1", "0">>

ExamDate2011 == <<"0", "1", "/", "2", "0", "/", "2", "0", "1", "1">>

\* rows of aibl_neurobat_*.csv
NeurobatRows ==
    [RID : {<<"1">>}, VISCODE : {Baseline, <<"m", "1", "8">>},
     EXAMDATE : {ExamDate2010, MissingCode}]

\* rows of aibl_ptdemog_*.csv
SessionPtdemogRows ==
    [RID : {<<"1">>}, VISCODE : {Baseline, <<"m", "1", "8">>},
     PTDOB : {<<"/", "1", "9", "5", "0">>, <<"/", "1", "9", "5", "1">>, MissingCode}]

\* rows of aibl_pdxconv_*.csv
PdxconvRows ==
    [RID : {<<"1">>}, VISCODE : {Baseline},
     DXCURREN : {<<"1">>, <<"2">>, <<"3">>, <<"4">>, MissingCode, <<>>}]

\* well-formed lines of aibl_mri3meta_*.csv and of aibl_flutemeta_*.csv
AlternativeRows ==
    {<<rid, viscode, examdate, <<"1">>, <<"0">>>> :
        rid \in {<<"1">>}, viscode \in {Baseline}, examdate \in {ExamDate2011, MissingCode}}

\* lines of aibl_mri3meta_*.csv: the date may also be left empty
Mri3metaRows ==
    AlternativeRows \cup {<<<<"1">>, Baseline, <<>>, <<"1">>, <<"0">>>>}

\* the line of the known shape: a comma in the free text gives one field more
KnownMalformedLine ==
    <<<<"1">>, Baseline, ExamDate2010, Measured, AustinText, <<"0">>>>

\* a flutemeta file: the known line may follow a first, well-formed line
FlutemetaFiles(n) ==
    {lines \in [1..n -> AlternativeRows \cup {KnownMalformedLine}] :
        n > 0 => lines[1] \in AlternativeRows}

\* the subjects and sessions found in the BIDS tree
BidsTrees ==
    LET s1 == FromOriginalStudyId(<<"1">>)
        s2 == FromOriginalStudyId(<<"2">>)
    IN  { <<[subject |-> s1, sessions |-> <<M000>>]>>,
          <<[subject |-> s1, sessions |-> <<M000, M018>>]>>,
          <<[subject |-> s1, sessions |-> <<M000>>], [subject |-> s2, sessions |-> <<M000>>]>> }

SessionFileSizes ==
    {n \in [1..5 -> 0..MaxSessionRows] : n[1] + n[2] + n[3] + n[4] + n[5] <= MaxSessionRows}

\* an alternative file is present when it has a row
WithAlternative(pattern, rows) == IF rows = <<>> THEN <<>> ELSE (pattern :> rows)

InitSessions ==
    /\ SpecificationsPresent
    /\ \E n \in SessionFileSizes :
         \E neurobat \in [1..n[1] -> NeurobatRows], ptdemog \in [1..n[2] -> SessionPtdemogRows],
            pdxconv \in [1..n[3] -> PdxconvRows], mri3meta \in [1..n[4] -> Mri3metaRows],
            flutemeta \in FlutemetaFiles(n[5]), bids \in BidsTrees :
                s_in = [files |-> ("aibl_neurobat_*.csv" :> neurobat)
                                  @@ ("aibl_ptdemog_*.csv" :> ptdemog)
                                  @@ ("aibl_pdxconv_*.csv" :> pdxconv)
                                  @@ WithAlternative("aibl_mri3meta_*.csv", mri3meta)
                                  @@ WithAlternative("aibl_flutemeta_*.csv", flutemeta),
                        specifications |-> AiblSessionRows,
                        bids |-> bids]
    /\ s_pos = 1
    /\ s_status = "start"
    /\ sessions_tsv = <<>>
    /\ s_reads = <<>>
    /\ IdleP
    /\ IdleC
    /\ IdleA
    /\ IdleB
    /\ IdleG
    /\ IdleW

NextSessions == LoadSessionsSpecifications \/ ProcessSubject

SpecSessions == InitSessions /\ [][NextSessions]_vars

---------------------------------------------------------------------------
(* _create_scans_dict *)

\* the rows of scans.tsv that map an AIBL column, in file order
AiblScansRows ==
    << [bids |-> "acq_time", location |-> "aibl_mrimeta_*.csv", column |-> "EXAMDATE",
        modalities |-> "T1/DWI/fMRI/FMAP"],
       [bids |-> "acq_time", location |-> "aibl_mri3meta_*.csv", column |-> "EXAMDATE",
        modalities |-> "T1/DWI/fMRI/FMAP"],
       [bids |-> "acq_time", location |-> "aibl_pibmeta_*.csv", column |-> "EXAMDATE",
        modalities |-> "11CPIB"],
       [bids |-> "acq_time", location |-> "aibl_flutemeta_*.csv", column |-> "EXAMDATE",
        modalities |-> "18FFMM"] >>

\* scans_specs: the rows of the scans.tsv the folder holds
ScansSpecifications == c_in.specifications

\* "flutemeta" in row[f"{study} location"]
OnBadLines(location) ==
    IF location = "aibl_flutemeta_*.csv" THEN "handler" ELSE "error"

\* the keys _init_scans_dict gives every session: the MR group and the three tracers
ModalityGroups == {"T1/DWI/fMRI/FMAP", "11CPIB", "18FAV45", "18FFMM"}

EmptyDict == [f \in {} |-> None]

\* _init_scans_dict: subjects and sessions in the order the tree is walked; then
\* _load_specifications for scans.tsv
InitScansDict ==
    /\ c_status = "start"
    /\ scans_dict' = [k \in 1..Len(c_in.bids) |->
                        [subject |-> c_in.bids[k].subject,
                         sessions |-> [n \in 1..Len(c_in.bids[k].sessions) |->
                                          [session |-> c_in.bids[k].sessions[n],
                                           modalities |-> [g \in ModalityGroups |-> EmptyDict]]]]]
    /\ IF SpecificationsExist(clinical_specifications_folder, "scans.tsv")
       THEN /\ c_row' = 1
            /\ c_status' = "running"
            /\ UNCHANGED not_found
       ELSE /\ c_status' = "failed"
            /\ not_found' = not_found \cup {SpecificationsPath("scans.tsv")}
            /\ UNCHANGED c_row
    /\ UNCHANGED <<c_in, pvars, svars, avars, bvars, gvars, wvars,
                   clinical_specifications_folder, not_matched>>

ZeroPad2(n) == IF n < 10 THEN <<"0">> \o NatToText(n) ELSE NatToText(n)

ZeroPad4(n) ==
    IF n < 10 THEN <<"0", "0", "0">> \o NatToText(n)
    ELSE IF n < 100 THEN <<"0", "0">> \o NatToText(n)
    ELSE IF n < 1000 THEN <<"0">> \o NatToText(n)
    ELSE NatToText(n)

\* datetime.strptime(time, "%m/%d/%Y").strftime("%Y-%m-%dT%H:%M:%S")
FormatTime(time) ==
    ZeroPad4(TextToNat(YearText(time))) \o <<"-">> \o ZeroPad2(TextToNat(MonthText(time)))
        \o <<"-">> \o ZeroPad2(TextToNat(DayText(time)))
        \o <<"T", "0", "0", ":", "0", "0", ":", "0", "0">>

\* the rows of the file selected for a subject and a session, in file order
ScanRows(file, rid, session) ==
    LET rids == ReadColumn(file, "RID")
        viscodes == ReadColumn(file, "VISCODE")
    IN  SelectSeq(Indices(Len(file)),
                  LAMBDA i : /\ IsNumber(rids[i]) /\ rids[i].v = rid
                             /\ ViscodeToSession(viscodes[i].v) = session)

\* variant: of several selected rows the first is taken
ScanValueOfFirstRow(file, rid, session, row) ==
    LET selected == ScanRows(file, rid, session)
    IN  IF Len(selected) = 0 THEN [ok |-> TRUE, value |-> Str(NA)]
        ELSE LET value == ReadColumn(file, row.column)[selected[1]]
             IN  IF value = Str(MissingCode) THEN [ok |-> TRUE, value |-> Str(NA)]
                 ELSE IF row.bids # "acq_time" THEN [ok |-> TRUE, value |-> value]
                 ELSE IF value.k # "str" THEN [ok |-> FALSE, value |-> value]
                 ELSE IF ~IsExamText(value.v) THEN [ok |-> TRUE, value |-> Str(NA)]
                 ELSE [ok |-> TRUE, value |-> Str(FormatTime(value.v))]

\* the try block for one subject and session: [ok, value]; ok is FALSE when an
\* exception other than ValueError leaves the block
ScanValue(file, rid, session, row) ==
    LET selected == ScanRows(file, rid, session)
    IN  IF Len(selected) # 1 THEN [ok |-> TRUE, value |-> Str(NA)]
        ELSE LET value == ReadColumn(file, row.column)[selected[1]]
             IN  IF value = Str(MissingCode) THEN [ok |-> TRUE, value |-> Str(NA)]
                 ELSE IF row.bids # "acq_time" THEN [ok |-> TRUE, value |-> value]
                 ELSE IF value.k # "str" THEN [ok |-> FALSE, value |-> value]
                 ELSE IF ~IsExamText(value.v) THEN [ok |-> TRUE, value |-> Str(NA)]
                 ELSE [ok |-> TRUE, value |-> Str(FormatTime(value.v))]

\* variant: the slot is written whatever it holds
AlwaysWrites(modality, field) == TRUE

\* variant: the slot is written only when the field is not there yet
WritesNewFieldOnly(modality, field) == field \notin DOMAIN modality

\* the slot is written when the field is not there yet or holds "n/a"
ShouldWrite(modality, field) ==
    field \notin DOMAIN modality \/ modality[field] = Str(NA)

\* modality[row["BIDS CLINICA"]] = value, under the condition above
WriteSlot(modality, field, value) ==
    IF ShouldWrite(modality, field)
    THEN [f \in (DOMAIN modality) \cup {field} |-> IF f = field THEN value ELSE modality[f]]
    ELSE modality

\* the scan store after one mapping row went over every subject and session
ScansAfterRow(scans, file, row) ==
    [k \in 1..Len(scans) |->
        [subject |-> scans[k].subject,
         sessions |-> [n \in 1..Len(scans[k].sessions) |->
            LET entry == scans[k].sessions[n]
                found == ScanValue(file, TextToInt(ToOriginalStudyId(scans[k].subject)),
                                   entry.session, row)
            IN  [session |-> entry.session,
                 modalities |-> [entry.modalities EXCEPT
                    ![row.modalities] = WriteSlot(entry.modalities[row.modalities],
                                                  row.bids, found.value)]]]]]

\* no lookup of the mapping row raises
CanProcessScanRow(scans, file, row) ==
    \A k \in 1..Len(scans) : \A n \in 1..Len(scans[k].sessions) :
        ScanValue(file, TextToInt(ToOriginalStudyId(scans[k].subject)),
                  scans[k].sessions[n].session, row).ok

\* variant: a pattern that matches no file gives a frame without rows
MetadataOrEmptyFrame(files, pattern, on_bad_lines) ==
    IF PatternMatches(files, pattern)
    THEN [found |-> TRUE] @@ ReadCsv(files[pattern], on_bad_lines)
    ELSE [found |-> TRUE, ok |-> TRUE, rows |-> <<>>]

\* _load_metadata_from_pattern: [found, ok, rows]; found is FALSE when the
\* FileNotFoundError is raised, ok is FALSE when read_csv raises
MetadataFromPattern(files, pattern, on_bad_lines) ==
    IF PatternMatches(files, pattern)
    THEN [found |-> TRUE] @@ ReadCsv(files[pattern], on_bad_lines)
    ELSE [found |-> FALSE, ok |-> FALSE, rows |-> <<>>]

\* one iteration of the loop over scans_specs.iterrows()
ProcessScanRow ==
    /\ c_status = "running"
    /\ c_row <= Len(ScansSpecifications)
    /\ \E row \in {ScansSpecifications[c_row]} :
       \E file \in {MetadataFromPattern(c_in.files, row.location, OnBadLines(row.location))} :
          /\ not_matched' = IF file.found THEN not_matched
                            ELSE not_matched \cup {PatternNotFound(row.location)}
          /\ IF \/ ~file.ok
                \/ ~CanReadSessions(file.rows)
                \/ row.modalities \notin ModalityGroups
                \/ ~CanProcessScanRow(scans_dict, file.rows, row)
             THEN /\ c_status' = "failed"
                  /\ UNCHANGED <<c_row, scans_dict>>
             ELSE /\ scans_dict' = ScansAfterRow(scans_dict, file.rows, row)
                  /\ c_row' = c_row + 1
                  /\ c_status' = IF c_row = Len(ScansSpecifications) THEN "done" ELSE "running"
    /\ UNCHANGED <<c_in, pvars, svars, avars, bvars, gvars, wvars,
                   clinical_specifications_folder, not_found>>

---------------------------------------------------------------------------
(* Inputs of the scans builder *)

\* lines of all clinical files read by the scans builder, taken together
MaxScanRows == 2

\* well-formed lines of the metadata files
ScanMetaRows ==
    {<<rid, viscode, examdate, <<"1">>, <<"0">>>> :
        rid \in {<<"1">>}, viscode \in {Baseline, <<"m", "1", "8">>},
        examdate \in {ExamDate2010, ExamDate2011, MissingCode}}

\* the line of the known shape, and a line with a free text of another shape
MalformedLines ==
    { KnownMalformedLine,
      <<<<"1">>, Baseline, ExamDate2010, Measured, <<"C", "T">>, <<"0">>>> }

\* a file: its first line is well formed
MetaFiles(n) ==
    {lines \in [1..n -> ScanMetaRows \cup MalformedLines] : n > 0 => lines[1] \in ScanMetaRows}

ScanFileSizes ==
    {n \in [1..4 -> 0..MaxScanRows] : n[1] + n[2] + n[3] + n[4] <= MaxScanRows}

InitScans ==
    /\ SpecificationsPresent
    /\ \E n \in ScanFileSizes :
         \E mrimeta \in MetaFiles(n[1]), mri3meta \in MetaFiles(n[2]),
            pibmeta \in MetaFiles(n[3]), flutemeta \in MetaFiles(n[4]), bids \in BidsTrees :
                c_in = [files |-> ("aibl_mrimeta_*.csv" :> mrimeta)
                                  @@ ("aibl_mri3meta_*.csv" :> mri3meta)
                                  @@ ("aibl_pibmeta_*.csv" :> pibmeta)
                                  @@ ("aibl_flutemeta_*.csv" :> flutemeta),
                        specifications |-> AiblScansRows,
                        bids |-> bids]
    /\ c_row = 0
    /\ c_status = "start"
    /\ scans_dict = <<>>
    /\ IdleP
    /\ IdleS
    /\ IdleA
    /\ IdleB
    /\ IdleG
    /\ IdleW

NextScans == InitScansDict \/ ProcessScanRow

SpecScans == InitScans /\ [][NextScans]_vars

---------------------------------------------------------------------------
(* _write_scans_tsv *)

SupportedModalities == {"anat", "dwi", "func", "pet"}

\* Path.suffix of the folder names of the tree: none of them has a dot
FolderSuffix == [name \in {"anat", "dwi", "func", "pet", "fmap"} |-> ""]

\* the tracer named by the trc- entity of a PET file name
TracerOfFilename ==
    ("trc-11CPIB_pet.nii.gz" :> "11CPIB") @@ ("trc-18FFMM_pet.nii.gz" :> "18FFMM")

\* a scans TSV on disk
NoTsv == [k |-> "absent"]

OldTsv == [k |-> "tsv", run |-> "earlier", rows |-> <<>>]

WrittenTsv(rows) == [k |-> "tsv", run |-> "this", rows |-> rows]

\* the folders of the session that the comprehension of lines 479-483 keeps
SupportedFolders(folders) ==
    SelectSeq(folders, LAMBDA mod : mod.name \in SupportedModalities)

\* [file for file in modality.iterdir() if modality.suffix != ".json"]
FilesOf(modality) ==
    IF FolderSuffix[modality.name] # ".json" THEN modality.files ELSE <<>>

\* f_type can be computed and is a key of the session's dictionary
CanClassify(modalities, modality, file) ==
    IF modality.name \in {"anat", "dwi", "func"} THEN "T1/DWI/fMRI/FMAP" \in DOMAIN modalities
    ELSE file \in DOMAIN TracerOfFilename /\ TracerOfFilename[file] \in DOMAIN modalities

FileType(modality, file) ==
    IF modality.name \in {"anat", "dwi", "func"} THEN "T1/DWI/fMRI/FMAP"
    ELSE TracerOfFilename[file]

\* pd.DataFrame(scans_dict[subject][session][f_type], index=[0]) with the column
\* filename inserted
RowToAppend(modalities, modality, file) ==
    ("filename" :> Str(modality.name \o " / " \o file)) @@ modalities[FileType(modality, file)]

\* variant: the frame is started again for every file
ConcatFramesKeepsLast(df, row) == <<row>>

\* pd.concat([scans_df, row_to_append]): the columns are the union, NaN where a row
\* has no value
ConcatFrames(df, row) ==
    LET columns == UNION ({DOMAIN df[i] : i \in 1..Len(df)} \cup {DOMAIN row})
        Extended(r) == [c \in columns |-> IF c \in DOMAIN r THEN r[c] ELSE NaN]
    IN  [i \in 1..(Len(df) + 1) |-> Extended(IF i <= Len(df) THEN df[i] ELSE row)]

\* the loop over the files of one modality folder, up to the j-th file
RECURSIVE AppendFiles(_, _, _, _)
AppendFiles(df, modalities, modality, j) ==
    IF j = 0 THEN df
    ELSE ConcatFrames(AppendFiles(df, modalities, modality, j - 1),
                      RowToAppend(modalities, modality, FilesOf(modality)[j]))

\* scans_df.fillna("n/a")
FillFrame(df) ==
    [i \in 1..Len(df) |->
        [c \in DOMAIN df[i] |-> IF IsNA(df[i][c]) THEN Str(NA) ELSE df[i][c]]]

\* variant: the writing starts when _create_scans_dict has ended, with or without
\* an exception
CreateScansDictEnded(status) == status \in {"done", "failed"}

\* create_scans_tsv_file calls _write_scans_tsv when _create_scans_dict has returned
CreateScansDictReturned(status) == status = "done"

\* the start of an iteration of the loop over the sessions: lines 476-478
UnlinkScansTsv ==
    /\ CreateScansDictReturned(c_status)
    /\ w_status = "session"
    /\ scans_df' = <<>>
    /\ bids_dir' = [bids_dir EXCEPT ![w_pc.subject][w_pc.session].tsv = NoTsv]
    /\ w_pc' = [w_pc EXCEPT !.modality = 1]
    /\ w_status' = "modality"
    /\ UNCHANGED <<w_calls, pvars, svars, cvars, avars, bvars, gvars, evars>>

\* one iteration of the loop over the supported modality folders: lines 484-500
WriteModality ==
    /\ w_status = "modality"
    /\ \E folders \in {SupportedFolders(bids_dir[w_pc.subject][w_pc.session].folders)} :
          /\ w_pc.modality <= Len(folders)
          /\ \E modality \in {folders[w_pc.modality]},
                modalities \in {scans_dict[w_pc.subject].sessions[w_pc.session].modalities} :
                IF \E j \in 1..Len(FilesOf(modality)) :
                      ~CanClassify(modalities, modality, FilesOf(modality)[j])
                THEN /\ w_status' = "failed"
                     /\ UNCHANGED <<bids_dir, w_pc, scans_df, w_calls>>
                ELSE \E df \in {FillFrame(AppendFiles(scans_df, modalities, modality,
                                                      Len(FilesOf(modality))))} :
                        /\ scans_df' = df
                        /\ bids_dir' = [bids_dir EXCEPT
                                          ![w_pc.subject][w_pc.session].tsv = WrittenTsv(df)]
                        /\ w_calls' = Append(w_calls, [subject |-> w_pc.subject,
                                                       session |-> w_pc.session])
                        /\ w_pc' = [w_pc EXCEPT !.modality = @ + 1]
                        /\ UNCHANGED w_status
    /\ UNCHANGED <<pvars, svars, cvars, avars, bvars, gvars, evars>>

\* the loop over the modality folders is exhausted: on to the next session, the next
\* subject, or the return
NextSession ==
    /\ w_status = "modality"
    /\ w_pc.modality > Len(SupportedFolders(bids_dir[w_pc.subject][w_pc.session].folders))
    /\ IF w_pc.session < Len(bids_dir[w_pc.subject])
       THEN /\ w_pc' = [w_pc EXCEPT !.session = @ + 1, !.modality = 0]
            /\ w_status' = "session"
       ELSE IF w_pc.subject < Len(bids_dir)
       THEN /\ w_pc' = [subject |-> w_pc.subject + 1, session |-> 1, modality |-> 0]
            /\ w_status' = "session"
       ELSE /\ w_status' = "done"
            /\ UNCHANGED w_pc
    /\ UNCHANGED <<bids_dir, scans_df, w_calls, pvars, svars, cvars, avars, bvars, gvars, evars>>

---------------------------------------------------------------------------
(* Inputs of create_scans_tsv_file *)

\* the modality folders of a session and their files, in the order glob gives them
SessionFolders ==
    { <<>>,
      <<[name |-> "anat", files |-> <<"T1w.nii.gz">>]>>,
      <<[name |-> "fmap", files |-> <<"magnitude.nii.gz">>]>>,
      <<[name |-> "anat", files |-> <<"T1w.nii.gz", "T1w.json">>],
        [name |-> "pet", files |-> <<"trc-11CPIB_pet.nii.gz">>]>>,
      <<[name |-> "anat", files |-> <<"T1w.nii.gz">>],
        [name |-> "fmap", files |-> <<"magnitude.nii.gz">>],
        [name |-> "dwi", files |-> <<"dwi.nii.gz">>],
        [name |-> "pet", files |-> <<"trc-18FFMM_pet.nii.gz">>]>> }

SessionDirs == [folders : SessionFolders, tsv : {NoTsv, OldTsv}]

\* the content of the tree for the subjects and sessions of a listing
DirsOf(bids) ==
    {d \in [1..Len(bids) -> [1..1 -> SessionDirs] \cup [1..2 -> SessionDirs]] :
        \A k \in 1..Len(bids) : Len(d[k]) = Len(bids[k].sessions)}

TsvMetaFiles ==
    { <<>>, <<<<<<"1">>, Baseline, ExamDate2010, <<"1">>, <<"0">>>>>> }

\* a file whose only line has a visit code that viscode_to_session does not know
UnknownVisitFile == <<<<<<"1">>, <<"s", "c">>, ExamDate2010, <<"1">>, <<"0">>>>>>

\* the mapping rows followed by one for a tracer that _init_scans_dict gives no key
ScansRowsWithUnknownGroup ==
    Append(AiblScansRows,
           [bids |-> "acq_time", location |-> "aibl_mrimeta_*.csv", column |-> "EXAMDATE",
            modalities |-> "18FFDG"])

\* the clinical folder without the files the patterns match
Without(files, patterns) == [q \in (DOMAIN files) \ patterns |-> files[q]]

\* the ways the inputs of the store can be wrong: none, no scans.tsv, no file for a
\* pattern, an unknown visit code, an unknown modality group
StoreFaults == {"none", "specification", "file", "visit", "group"}

InitScansTsv ==
    /\ not_found = {}
    /\ not_matched = {}
    /\ \E mrimeta \in TsvMetaFiles, pibmeta \in TsvMetaFiles, bids \in BidsTrees,
          fault \in StoreFaults :
          /\ clinical_specifications_folder =
                IF fault = "specification" THEN SpecificationFiles \ {"scans.tsv"}
                ELSE SpecificationFiles
          /\ c_in = [files |->
                        LET files == ("aibl_mrimeta_*.csv" :> mrimeta)
                                     @@ ("aibl_mri3meta_*.csv" :> <<>>)
                                     @@ ("aibl_pibmeta_*.csv" :>
                                            IF fault = "visit" THEN UnknownVisitFile
                                            ELSE pibmeta)
                                     @@ ("aibl_flutemeta_*.csv" :> <<>>)
                        IN  IF fault = "file" THEN Without(files, {"aibl_pibmeta_*.csv"})
                            ELSE files,
                     specifications |-> IF fault = "group" THEN ScansRowsWithUnknownGroup
                                        ELSE AiblScansRows,
                     bids |-> bids]
          /\ bids_dir \in DirsOf(bids)
    /\ c_row = 0
    /\ c_status = "start"
    /\ scans_dict = <<>>
    /\ w_pc = [subject |-> 1, session |-> 1, modality |-> 0]
    /\ w_status = "session"
    /\ scans_df = <<>>
    /\ w_calls = <<>>
    /\ IdleP
    /\ IdleS
    /\ IdleA
    /\ IdleB
    /\ IdleG

NextScansTsv ==
    InitScansDict \/ ProcessScanRow \/ UnlinkScansTsv \/ WriteModality \/ NextSession

SpecScansTsv == InitScansTsv /\ [][NextScansTsv]_vars

---------------------------------------------------------------------------
(* The three builders on one tree, each specification file there or not *)

\* the tree on disk: every session has a scans TSV of an earlier run, and either no
\* modality folder or the folders anat and pet
DirsWithOldTsv(bids) ==
    {d \in DirsOf(bids) :
        \A k \in 1..Len(bids) : \A n \in 1..Len(d[k]) :
            d[k][n].tsv = OldTsv /\ Len(d[k][n].folders) \in {0, 2}}

\* the mapping rows followed by a second one for the field sex
ParticipantRowsWithSexTwice ==
    Append(AiblParticipantRows,
           [bids |-> "sex", location |-> "aibl_apoeres_*.csv", column |-> "APGEN1"])

\* the mapping rows followed by a second one for the field examination_date
SessionRowsWithDateTwice ==
    Append(AiblSessionRows,
           [bids |-> "examination_date", location |-> "aibl_neurobat_*.csv",
            column |-> "EXAMDATE"])

\* the patterns that match no file of the clinical folder
LostPatterns ==
    { {}, {"aibl_neurobat_*.csv"}, {"aibl_ptdemog_*.csv", "aibl_mrimeta_*.csv"} }

InitBuilders ==
    /\ clinical_specifications_folder \in SUBSET SpecificationFiles
    /\ not_found = {}
    /\ not_matched = {}
    /\ \E bids \in BidsTrees, mrimeta \in TsvMetaFiles, lost \in LostPatterns,
          participant \in {AiblParticipantRows, ParticipantRowsWithSexTwice},
          sessions \in {AiblSessionRows, SessionRowsWithDateTwice} :
          /\ p_in = [files |-> Without(
                                  ("aibl_ptdemog_*.csv" :>
                                    <<[RID |-> <<"1">>, PTDOB |-> <<"/", "1", "9", "5", "0">>,
                                       PTGENDER |-> <<"1">>]>>)
                                  @@ ("aibl_apoeres_*.csv" :>
                                        <<[RID |-> <<"1">>, APGEN1 |-> <<"2">>]>>),
                                  lost),
                     specifications |-> participant,
                     bids |-> [k \in 1..Len(bids) |-> bids[k].subject],
                     delete_non_bids_info |-> TRUE]
          /\ s_in = [files |-> Without(
                                  ("aibl_neurobat_*.csv" :>
                                    <<[RID |-> <<"1">>, VISCODE |-> Baseline,
                                       EXAMDATE |-> ExamDate2010]>>)
                                  @@ ("aibl_ptdemog_*.csv" :> <<>>)
                                  @@ ("aibl_pdxconv_*.csv" :> <<>>),
                                  lost),
                     specifications |-> sessions,
                     bids |-> bids]
          /\ c_in = [files |-> Without(
                                  ("aibl_mrimeta_*.csv" :> mrimeta)
                                  @@ ("aibl_mri3meta_*.csv" :> <<>>)
                                  @@ ("aibl_pibmeta_*.csv" :> <<>>)
                                  @@ ("aibl_flutemeta_*.csv" :> <<>>),
                                  lost),
                     specifications |-> AiblScansRows,
                     bids |-> bids]
          /\ bids_dir \in DirsWithOldTsv(bids)
    /\ p_status = "start"
    /\ participants_tsv = <<>>
    /\ p_warnings = <<>>
    /\ s_pos = 1
    /\ s_status = "start"
    /\ sessions_tsv = <<>>
    /\ s_reads = <<>>
    /\ c_row = 0
    /\ c_status = "start"
    /\ scans_dict = <<>>
    /\ w_pc = [subject |-> 1, session |-> 1, modality |-> 0]
    /\ w_status = "session"
    /\ scans_df = <<>>
    /\ w_calls = <<>>
    /\ IdleA
    /\ IdleB
    /\ IdleG

NextBuilders ==
    \/ CreateParticipantsTsvFile
    \/ LoadSessionsSpecifications
    \/ ProcessSubject
    \/ InitScansDict
    \/ ProcessScanRow
    \/ UnlinkScansTsv
    \/ WriteModality
    \/ NextSession

SpecBuilders == InitBuilders /\ [][NextBuilders]_vars

---------------------------------------------------------------------------
(* One call of _compute_age_at_exam *)

Pending == [k |-> "pending"]

Raised == [k |-> "raised"]

\* the call returns its value, or an exception of strptime leaves it
ComputeAge ==
    /\ a_out = Pending
    /\ a_out' = IF CanComputeAgeAtExam(a_in.birth_date, a_in.exam_date)
                THEN ComputeAgeAtExam(a_in.birth_date, a_in.exam_date)
                ELSE Raised
    /\ UNCHANGED <<a_in, pvars, svars, cvars, bvars, gvars, wvars, evars>>

\* values a cell of date_of_birth can hold when the call is made
BirthValues ==
    { None, NaN, Str(<<>>),
      Str(<<"/", "1", "9", "5", "0">>), Str(<<"/", "1", "9", "5", "1">>),
      Str(<<"/", "2", "0", "1", "0">>), Str(<<"1", "9", "5", "0">>) }

\* values a cell of examination_date can hold when the call is made
ExamValues ==
    { None, NaN, Str(<<>>), FloatV(-4),
      Str(ExamDate2010), Str(ExamDate2011),
      Str(<<"1", "2", "/", "3", "1", "/", "2", "0", "1", "0">>),
      Str(<<"1", "/", "1", "/", "2", "0", "1", "1">>),
      Str(<<"0", "2", "/", "3", "0", "/", "2", "0", "1", "0">>),
      Str(<<"2", "0", "1", "0", "-", "0", "6", "-", "1", "5">>) }

InitAge ==
    /\ SpecificationsPresent
    /\ \E birth_date \in BirthValues, exam_date \in ExamValues :
          a_in = [birth_date |-> birth_date, exam_date |-> exam_date]
    /\ a_out = Pending
    /\ IdleP
    /\ IdleS
    /\ IdleC
    /\ IdleB
    /\ IdleG
    /\ IdleW

NextAge == ComputeAge

SpecAge == InitAge /\ [][NextAge]_vars

---------------------------------------------------------------------------
(* One call of _handle_flutemeta_badline *)

\* the call returns its value, or the IndexError of a short line leaves it
HandleBadline ==
    /\ b_out = Pending
    /\ b_out' = IF CanHandleFlutemetaBadline(b_in) THEN HandleFlutemetaBadline(b_in) ELSE Raised
    /\ UNCHANGED <<b_in, pvars, svars, cvars, avars, gvars, wvars, evars>>

\* fields of a line handed to the handler
BadlineFields == {<<"1">>, <<"0">>, Measured, AustinText}

\* the longest line handed to the handler
MaxLineLen == 5

InitBadline ==
    /\ SpecificationsPresent
    /\ \E n \in 2..MaxLineLen : \E line \in [1..n -> BadlineFields] : b_in = line
    /\ b_out = Pending
    /\ IdleP
    /\ IdleS
    /\ IdleC
    /\ IdleA
    /\ IdleG
    /\ IdleW

NextBadline == HandleBadline

SpecBadline == InitBadline /\ [][NextBadline]_vars

---------------------------------------------------------------------------
(* aggregator: one call of the decorated function *)

\* Python values handed to the call: numbers and strings, tuples, and sets given as
\* their elements in iteration order
TupleV(elements) == [k |-> "tuple", v |-> elements]

SetV(elements) == [k |-> "set", v |-> elements]

\* isinstance(arg, Iterable) and not isinstance(arg, str)
IsIterableArg(arg) == arg.k \in {"tuple", "set"}

\* arg[i] can be evaluated: a set is not subscriptable
CanSubscript(arg) == arg.k = "tuple"

\* func(*args, **kwargs) of the decorated function
Func(args, kwargs) == [k |-> "result", args |-> args, kwargs |-> kwargs]

RaisedError(error) == [k |-> "raised", error |-> error]

ListV(elements) == [k |-> "list", v |-> elements]

\* arg_sizes as a set: the lengths of the iterable args and kwargs
ArgSizes(args, kwargs) ==
    {Len(args[j].v) : j \in {i \in 1..Len(args) : IsIterableArg(args[i])}}
    \cup {Len(kwargs[name].v) : name \in {x \in DOMAIN kwargs : IsIterableArg(kwargs[x])}}

\* new_args: a non-iterable value is repeated arg_size times
NewArgs(args, arg_size) ==
    [j \in 1..Len(args) |->
        IF IsIterableArg(args[j]) THEN args[j].v ELSE [i \in 1..arg_size |-> args[j]]]

\* new_kwargs: one dictionary per position
NewKwargs(kwargs, arg_size) ==
    [i \in 1..arg_size |->
        [name \in DOMAIN kwargs |->
            IF IsIterableArg(kwargs[name]) THEN kwargs[name].v[i] ELSE kwargs[name]]]

\* wrapper_aggregator(*args, **kwargs)
WrapperAggregator(args, kwargs) ==
    LET arg_sizes == ArgSizes(args, kwargs)
    IN  IF Cardinality(arg_sizes) > 1 THEN RaisedError("ValueError")
        ELSE IF arg_sizes = {} THEN Func(args, kwargs)
        ELSE LET arg_size == CHOOSE size \in arg_sizes : TRUE
                 new_args == NewArgs(args, arg_size)
             IN  IF /\ arg_size > 0
                    /\ \E name \in DOMAIN kwargs :
                          IsIterableArg(kwargs[name]) /\ ~CanSubscript(kwargs[name])
                 THEN RaisedError("TypeError")
                 ELSE ListV([i \in 1..arg_size |->
                                Func([j \in 1..Len(args) |-> new_args[j][i]],
                                     NewKwargs(kwargs, arg_size)[i])])

\* the call returns its value, or an exception leaves it
CallAggregated ==
    /\ g_out = Pending
    /\ g_out' = WrapperAggregator(g_in.args, g_in.kwargs)
    /\ UNCHANGED <<g_in, pvars, svars, cvars, avars, bvars, wvars, evars>>

\* the longest tuple or set handed to the call
MaxIterableLen == 2

\* the largest number of arguments of the call, positional and keyword together
MaxArgs == 2

Iterables ==
    UNION {[1..n -> {IntV(1), IntV(2)}] : n \in 0..MaxIterableLen}

ArgValues ==
    {IntV(1), Str(<<"a", "b">>)}
    \cup {TupleV(elements) : elements \in Iterables}
    \cup {SetV(elements) : elements \in
             {e \in Iterables : \A i, j \in 1..Len(e) : i # j => e[i] # e[j]}}

KeywordNames == {"modulation", "tissue_number"}

InitAggregator ==
    /\ SpecificationsPresent
    /\ \E n \in 0..MaxArgs, names \in SUBSET KeywordNames :
          /\ n + Cardinality(names) <= MaxArgs
          /\ \E args \in [1..n -> ArgValues], kwargs \in [names -> ArgValues] :
                g_in = [args |-> args, kwargs |-> kwargs]
    /\ g_out = Pending
    /\ IdleP
    /\ IdleS
    /\ IdleC
    /\ IdleA
    /\ IdleB
    /\ IdleW

NextAggregator == CallAggregated

SpecAggregator == InitAggregator /\ [][NextAggregator]_vars

---------------------------------------------------------------------------
(* Claims about the participants builder (SpecParticipants) *)

ParticipantIds ==
    [i \in 1..Len(participants_tsv) |-> participants_tsv[i]["participant_id"]]

BidsPosition(id) == CHOOSE j \in 1..Len(p_in.bids) : Str(p_in.bids[j]) = id

ClinicalIds ==
    {FromOriginalStudyId(p_in.files["aibl_ptdemog_*.csv"][i].RID) :
        i \in 1..Len(p_in.files["aibl_ptdemog_*.csv"])}

\* C1: with delete_non_bids_info=True the participant_id values written are exactly
\* the names that sub-* matched under the BIDS root, none missing and none extra,
\* and they appear in the order in which the BIDS root enumeration returned them.
C1_ParticipantsMatchBidsRoot ==
    (p_status = "done" /\ p_in.delete_non_bids_info) =>
        /\ {ParticipantIds[i] : i \in 1..Len(participants_tsv)}
             = {Str(p_in.bids[j]) : j \in 1..Len(p_in.bids)}
        /\ \A i, j \in 1..Len(participants_tsv) :
             i < j => BidsPosition(ParticipantIds[i]) <= BidsPosition(ParticipantIds[j])

\* C1 witness: a reconciled run where the clinical data has a subject the BIDS root
\* lacks, the BIDS root has a subject the clinical data lacks, and the BIDS order
\* differs from the clinical one.
C1_Witness ==
    /\ p_status = "done"
    /\ p_in.delete_non_bids_info
    /\ p_in.bids = <<FromOriginalStudyId(<<"3">>), FromOriginalStudyId(<<"1">>)>>
    /\ ClinicalIds = {FromOriginalStudyId(<<"1">>), FromOriginalStudyId(<<"2">>)}
    /\ Len(participants_tsv) = 2

\* C8 (as claimed): no written cell is "-4" or empty, and every source cell that is
\* empty or holds -4 is written as "n/a", for every mapped column.
C8_MissingValuesWrittenAsNA ==
    p_status = "done" =>
        /\ \A i \in 1..Len(participants_tsv) : \A f \in DOMAIN participants_tsv[i] :
              /\ ~IsNA(participants_tsv[i][f])
              /\ participants_tsv[i][f] \notin {Str(MissingCode), Str(<<>>)}
        /\ ~p_in.delete_non_bids_info =>
              \A m \in 2..Len(ParticipantSpecifications) :
                 LET row == ParticipantSpecifications[m]
                     file == p_in.files[row.location]
                 IN  \A i \in 1..Len(participants_tsv) :
                        (i <= Len(file) /\ file[i][row.column] \in {<<>>, MissingCode})
                            => participants_tsv[i][row.bids] = Str(NA)

\* C9 (as claimed): every participant_id value occurs in exactly one written row.
C9_ParticipantIdsUnique ==
    p_status = "done" =>
        \A i, j \in 1..Len(participants_tsv) :
            ParticipantIds[i] = ParticipantIds[j] => i = j

\* C10: with reconciliation enabled the builder does not fail, and for every BIDS
\* subject without a row in the joined clinical table it emits exactly one warning
\* and writes exactly one row, whose participant_id is the directory name and whose
\* every other field is "n/a".
C10_MissingSubjectSynthesized ==
    (p_status # "start" /\ p_in.delete_non_bids_info) =>
        /\ p_status = "done"
        /\ \A j \in 1..Len(p_in.bids) :
              p_in.bids[j] \notin ClinicalIds =>
                 /\ Cardinality({w \in 1..Len(p_warnings) : p_warnings[w] = p_in.bids[j]}) = 1
                 /\ Cardinality({i \in 1..Len(participants_tsv) :
                                    ParticipantIds[i] = Str(p_in.bids[j])}) = 1
                 /\ \A i \in 1..Len(participants_tsv) :
                       ParticipantIds[i] = Str(p_in.bids[j]) =>
                          \A f \in (DOMAIN participants_tsv[i]) \ {"participant_id"} :
                             participants_tsv[i][f] = Str(NA)

\* C10 witness: a reconciled run over a BIDS root holding a subject that no clinical
\* row names; its warning was emitted and its row written.
C10_Witness ==
    /\ p_status = "done"
    /\ p_in.delete_non_bids_info
    /\ FromOriginalStudyId(<<"3">>) \notin ClinicalIds
    /\ p_warnings = <<FromOriginalStudyId(<<"3">>)>>
    /\ \E i \in 1..Len(participants_tsv) :
          ParticipantIds[i] = Str(FromOriginalStudyId(<<"3">>))

\* C11 (as claimed): a value copied from a source file is attached to the written row
\* of the subject whose identifier the source row carries: a written row holds the
\* APGEN1 value 3 only when aibl_apoeres_*.csv has a row of that subject with APGEN1 3.
C11_ColumnsJoinedBySubject ==
    p_status = "done" =>
        \A i \in 1..Len(participants_tsv) :
            participants_tsv[i]["apoe_gen1"] \in {Str(<<"3">>), Str(<<"3", ".", "0">>)} =>
                \E j \in 1..Len(p_in.files["aibl_apoeres_*.csv"]) :
                    /\ Str(FromOriginalStudyId(p_in.files["aibl_apoeres_*.csv"][j].RID))
                          = participants_tsv[i]["participant_id"]
                    /\ p_in.files["aibl_apoeres_*.csv"][j].APGEN1 = <<"3">>

---------------------------------------------------------------------------
(* Claims about the sessions builder (SpecSessions) *)

\* the sessions of the k-th BIDS subject, as session_id cells
KnownSessions(k) ==
    {Str(s_in.bids[k].sessions[i]) : i \in 1..Len(s_in.bids[k].sessions)}

WrittenSessionIds(k) ==
    [i \in 1..Len(sessions_tsv[k].rows) |-> sessions_tsv[k].rows[i]["session_id"]]

\* the positions of the rows of a clinical file that name the k-th BIDS subject
ClinicalRowsOf(pattern, k) ==
    IF pattern \notin DOMAIN s_in.files THEN {}
    ELSE {j \in 1..Len(s_in.files[pattern]) :
            s_in.files[pattern][j].RID = ToOriginalStudyId(s_in.bids[k].subject)}

\* the session labels the clinical file holds for the k-th BIDS subject
ClinicalLabelsOf(pattern, k) ==
    {ViscodeToSession(s_in.files[pattern][j].VISCODE) : j \in ClinicalRowsOf(pattern, k)}

\* C3: for every subject the written sessions table has no row for a clinical visit
\* whose session label is not one of the subject's BIDS sessions, and it has at most
\* as many rows as the subject has BIDS sessions.
C3_NoRowForUnknownSession ==
    \A k \in 1..Len(sessions_tsv) :
        /\ \A i \in 1..Len(sessions_tsv[k].rows) : WrittenSessionIds(k)[i] \in KnownSessions(k)
        /\ Len(sessions_tsv[k].rows) <= Len(s_in.bids[k].sessions)

\* C3 witness: the table of a subject whose only BIDS session is M000 was written
\* although the clinical data holds a visit m18 of that subject.
C3_Witness ==
    /\ Len(sessions_tsv) >= 1
    /\ s_in.bids[1].sessions = <<M000>>
    /\ M018 \in ClinicalLabelsOf("aibl_neurobat_*.csv", 1)
    /\ Len(sessions_tsv[1].rows) = 1

\* C4: for every subject the written sessions table has exactly one row for each
\* BIDS session of the subject, also for a session that no clinical file has a row for.
C4_OneRowPerKnownSession ==
    \A k \in 1..Len(sessions_tsv) :
        /\ sessions_tsv[k].subject = s_in.bids[k].subject
        /\ \A label \in KnownSessions(k) :
              Cardinality({i \in 1..Len(sessions_tsv[k].rows) :
                              WrittenSessionIds(k)[i] = label}) = 1

\* C4 witness: a table with the rows of M000 and M018 was written for a subject
\* whose clinical rows are all of the visit bl.
C4_Witness ==
    /\ Len(sessions_tsv) >= 1
    /\ s_in.bids[1].sessions = <<M000, M018>>
    /\ ClinicalLabelsOf("aibl_neurobat_*.csv", 1) = {M000}
    /\ \A pattern \in DOMAIN s_in.files : M018 \notin ClinicalLabelsOf(pattern, 1)
    /\ WrittenSessionIds(1) = <<Str(M000), Str(M018)>>

\* the scheme of the claim, on the text of the DXCURREN field
DiagnosisScheme(field) ==
    IF field = <<"1">> THEN <<"C", "N">>
    ELSE IF field = <<"2">> THEN <<"M", "C", "I">>
    ELSE IF field = <<"3">> THEN <<"A", "D">>
    ELSE NA

\* C5: the diagnosis of every written session row follows the scheme 1 -> "CN",
\* 2 -> "MCI", 3 -> "AD", and every other input (4, the missing code -4, an absent
\* value, no clinical row at all) -> "n/a".
C5_DiagnosisScheme ==
    \A k \in 1..Len(sessions_tsv) : \A i \in 1..Len(sessions_tsv[k].rows) :
        LET file == s_in.files["aibl_pdxconv_*.csv"]
            source == {j \in ClinicalRowsOf("aibl_pdxconv_*.csv", k) :
                          Str(ViscodeToSession(file[j].VISCODE)) = WrittenSessionIds(k)[i]}
        IN  /\ source = {} => sessions_tsv[k].rows[i]["diagnosis"] = Str(NA)
            /\ \A j \in source :
                  sessions_tsv[k].rows[i]["diagnosis"] = Str(DiagnosisScheme(file[j].DXCURREN))

\* C5 witness: a written row whose DXCURREN field is 3, next to a row of a session
\* that the diagnosis file does not have.
C5_Witness ==
    /\ Len(sessions_tsv) >= 1
    /\ s_in.bids[1].sessions = <<M000, M018>>
    /\ \E j \in ClinicalRowsOf("aibl_pdxconv_*.csv", 1) :
          s_in.files["aibl_pdxconv_*.csv"][j].DXCURREN = <<"3">>
    /\ sessions_tsv[1].rows[1]["diagnosis"] = Str(<<"A", "D">>)
    /\ sessions_tsv[1].rows[2]["diagnosis"] = Str(NA)

\* the non-missing birth dates of the joined rows of the k-th BIDS subject
JoinedBirthDates(k) ==
    {s_in.files["aibl_ptdemog_*.csv"][j].PTDOB : j \in ClinicalRowsOf("aibl_ptdemog_*.csv", k)}
        \ {MissingCode, <<>>}

\* C7: when the joined rows of a subject carry two or more distinct non-missing birth
\* dates, the age of every written session row of that subject is "n/a", whatever
\* the examination dates are.
C7_AmbiguousBirthDateGivesNoAge ==
    \A k \in 1..Len(sessions_tsv) :
        Cardinality(JoinedBirthDates(k)) >= 2 =>
            \A i \in 1..Len(sessions_tsv[k].rows) : sessions_tsv[k].rows[i]["age"] = Str(NA)

\* C7 witness: the table of a subject with the birth dates /1950 and /1951 was
\* written, and one of its rows has an examination date.
C7_Witness ==
    /\ Len(sessions_tsv) >= 1
    /\ Cardinality(JoinedBirthDates(1)) = 2
    /\ \E i \in 1..Len(sessions_tsv[1].rows) :
          /\ sessions_tsv[1].rows[i]["examination_date"] = Str(ExamDate2010)
          /\ sessions_tsv[1].rows[i]["age"] = Str(NA)

\* the file of the k-th mapping row has two rows for the subject and one session
TwoRowsForOneSession(k, rid) ==
    /\ CanFormatMetadataForRid(s_in.files[SessionSpecifications[k].location], rid)
    /\ HasDuplicateIndex(FormatMetadataForRid(s_in.files[SessionSpecifications[k].location],
                                              rid, SessionSpecifications[k].column))

\* C15: more than one clinical row for a subject, a session and a field is taken as an
\* absent value and never aborts the run; for the sessions builder: the run does not
\* fail at the join of a mapping row whose file has two rows for the subject and one
\* session, the earlier mapping rows having been joined.
C15_SeveralRowsNeverAbort ==
    s_status = "failed" =>
        \A k \in 1..Len(SessionSpecifications) :
            ~ /\ JoinSessions(s_in.files, TextToInt(ToOriginalStudyId(s_in.bids[s_pos].subject)),
                              s_in.bids[s_pos].sessions, k - 1).ok
              /\ TwoRowsForOneSession(k, TextToInt(ToOriginalStudyId(s_in.bids[s_pos].subject)))

\* the number of times the file of a location pattern was read and parsed
ReadCount(pattern) == Cardinality({i \in 1..Len(s_reads) : s_reads[i] = pattern})

\* C19: within one invocation of a builder the clinical file of each location pattern
\* is read and parsed at most once, whatever the number and the order of the mapping
\* rows that name it and the number of subjects; for the sessions builder.
C19_EachPatternReadOnce ==
    \A k \in 1..Len(SessionSpecifications) : ReadCount(SessionSpecifications[k].location) <= 1

---------------------------------------------------------------------------
(* Claims about _compute_age_at_exam (SpecAge) *)

\* an absent argument
Absent == {None, Str(<<>>)}

\* the four digits that end a text
LastFourDigits(s) == TextToNat(SubSeq(s, Len(s) - 3, Len(s)))

\* texts of the forms "/YYYY" and "MM/DD/YYYY"
WellFormedDates ==
    /\ a_in.birth_date.k = "str" /\ IsBirthText(a_in.birth_date.v)
    /\ a_in.exam_date.k = "str" /\ IsExamText(a_in.exam_date.v)

---------------------------------------------------------------------------
(* Claims about the scans builder (SpecScans) *)

MRGroup == "T1/DWI/fMRI/FMAP"

\* the value a mapping row resolves to for the first session of the first subject
ResolvedByRow(m) ==
    ScanValue(ReadCsv(c_in.files[ScansSpecifications[m].location],
                      OnBadLines(ScansSpecifications[m].location)).rows,
              TextToInt(ToOriginalStudyId(c_in.bids[1].subject)),
              c_in.bids[1].sessions[1], ScansSpecifications[m]).value

\* C2: once a (subject, session, modality group, field) slot of the scan store holds
\* a value other than "n/a", no step of the loop over the mapping rows changes it,
\* also when the mapping row of the step resolves to another value that is not "n/a".
C2_FirstWriterWins ==
    [][\A k \in 1..Len(scans_dict) : \A n \in 1..Len(scans_dict[k].sessions) :
         \A g \in ModalityGroups :
            \A f \in DOMAIN scans_dict[k].sessions[n].modalities[g] :
               scans_dict[k].sessions[n].modalities[g][f] # Str(NA) =>
                  /\ f \in DOMAIN scans_dict'[k].sessions[n].modalities[g]
                  /\ scans_dict'[k].sessions[n].modalities[g][f]
                        = scans_dict[k].sessions[n].modalities[g][f]]_vars

\* C2 witness: the two mapping rows of the MR group were processed, the first resolved
\* to 2010-06-15 and the second to 2011-01-20, and the slot holds 2010-06-15.
C2_Witness ==
    /\ c_status \in {"running", "done"}
    /\ c_row >= 3
    /\ ScansSpecifications[1].modalities = MRGroup /\ ScansSpecifications[2].modalities = MRGroup
    /\ ResolvedByRow(1) = Str(<<"2", "0", "1", "0", "-", "0", "6", "-", "1", "5",
                                "T", "0", "0", ":", "0", "0", ":", "0", "0">>)
    /\ ResolvedByRow(2) = Str(<<"2", "0", "1", "1", "-", "0", "1", "-", "2", "0",
                                "T", "0", "0", ":", "0", "0", ":", "0", "0">>)
    /\ scans_dict[1].sessions[1].modalities[MRGroup]["acq_time"] = ResolvedByRow(1)

KnownShape(line) ==
    Len(line) >= 3 /\ line[Len(line) - 2] = Measured /\ line[Len(line) - 1] = AustinText

\* a line with too many fields that has not the known shape
OtherMalformed(line) == IsBadLine(line) /\ ~KnownShape(line)

\* the mapping row m was processed and the loop went on
RowProcessed(m) == c_status \in {"running", "done"} /\ c_row > m

\* C13: a clinical file (a flutemeta file included) with a malformed line of another
\* shape than measured / "AUSTIN AC CT Brain  H19s" makes the parse raise and the run
\* abort: no mapping row that reads such a file is processed to its end.
C13_OtherShapeAborts ==
    \A m \in 1..Len(ScansSpecifications) :
        RowProcessed(m) =>
            \A i \in 1..Len(c_in.files[ScansSpecifications[m].location]) :
                ~OtherMalformed(c_in.files[ScansSpecifications[m].location][i])

\* the lines of a file with every line of the known shape repaired as the handler does
RepairedLines(lines) ==
    [i \in 1..Len(lines) |->
        IF KnownShape(lines[i]) THEN HandleFlutemetaBadline(lines[i]).v ELSE lines[i]]

WithFlutemetaRepaired(files) ==
    [pattern \in DOMAIN files |->
        IF pattern = "aibl_flutemeta_*.csv" THEN RepairedLines(files[pattern])
        ELSE files[pattern]]

\* C14: a flutemeta file with the line of the known shape never aborts a run that reads
\* it; for the sessions builder, whose search for another examination date reads the
\* file: a run aborts only if it also aborts on the same files with the line repaired.
C14_KnownLineNeverAborts ==
    s_status = "failed" =>
        ~SubjectSessions(WithFlutemetaRepaired(s_in.files),
                         TextToInt(ToOriginalStudyId(s_in.bids[s_pos].subject)),
                         s_in.bids[s_pos].sessions).ok

---------------------------------------------------------------------------
(* Claims about _handle_flutemeta_badline (SpecBadline) *)

\* C12: for a line whose third-last field is "measured" and whose second-last field is
\* "AUSTIN AC CT Brain  H19s" the handler returns the line with these two fields
\* replaced by the one field "-4": the earlier fields and the last field are kept, in
\* order, and there is one field less.
C12_KnownShapeRepaired ==
    (b_out # Pending /\ KnownShape(b_in)) =>
        /\ b_out.k = "list"
        /\ Len(b_out.v) = Len(b_in) - 1
        /\ \A i \in 1..(Len(b_in) - 3) : b_out.v[i] = b_in[i]
        /\ b_out.v[Len(b_in) - 2] = MissingCode
        /\ b_out.v[Len(b_in) - 1] = b_in[Len(b_in)]

\* C12 witness: the call for [1, 1, measured, AUSTIN AC CT Brain  H19s, 0] has
\* returned [1, 1, -4, 0].
C12_Witness ==
    /\ b_in = <<<<"1">>, <<"1">>, Measured, AustinText, <<"0">>>>
    /\ b_out = List(<<<<"1">>, <<"1">>, MissingCode, <<"0">>>>)

---------------------------------------------------------------------------
(* Claims about create_scans_tsv_file (SpecScansTsv) *)

\* the subjects and sessions of the scan store, by position
StoreSessions ==
    {kn \in (1..2) \X (1..2) : kn[1] <= Len(bids_dir) /\ kn[2] <= Len(bids_dir[kn[1]])}

\* the number of to_csv calls for the scans TSV of a subject and session
ScansTsvWrites(k, n) ==
    Cardinality({i \in 1..Len(w_calls) : w_calls[i] = [subject |-> k, session |-> n]})

\* C16: during one run each (subject, session) scans TSV is written exactly once,
\* whatever the number of modality folders of the session: never a second time, and
\* once when the run has completed.
C16_ScansTsvWrittenOnce ==
    \A kn \in StoreSessions :
        /\ ScansTsvWrites(kn[1], kn[2]) <= 1
        /\ w_status = "done" => ScansTsvWrites(kn[1], kn[2]) = 1

\* C17: after create_scans_tsv_file has completed, every (subject, session) of the scan
\* store has a scans TSV written by this run, also a session with no supported
\* modality folder and a session that had a TSV before the run.
C17_EverySessionHasNewTsv ==
    w_status = "done" =>
        \A kn \in StoreSessions : bids_dir[kn[1]][kn[2]].tsv.k = "tsv"
                                  /\ bids_dir[kn[1]][kn[2]].tsv.run = "this"

\* the files under the anat, dwi, func and pet folders of a session: <<folder, file>>
ScanFiles(k, n) ==
    {<<m, j>> \in (1..4) \X (1..2) :
        /\ m <= Len(bids_dir[k][n].folders)
        /\ bids_dir[k][n].folders[m].name \in {"anat", "dwi", "func", "pet"}
        /\ j <= Len(bids_dir[k][n].folders[m].files)}

ScanFileName(k, n, mj) ==
    bids_dir[k][n].folders[mj[1]].name \o " / " \o bids_dir[k][n].folders[mj[1]].files[mj[2]]

\* C18: the scans TSV on disk for a (subject, session) when the run has completed has
\* exactly one row for each file under the anat, dwi, func and pet folders of the
\* session taken together, and no other row.
C18_OneRowPerScanFile ==
    w_status = "done" =>
        \A kn \in StoreSessions :
            bids_dir[kn[1]][kn[2]].tsv.k = "tsv" =>
                LET rows == bids_dir[kn[1]][kn[2]].tsv.rows
                IN  /\ Len(rows) = Cardinality(ScanFiles(kn[1], kn[2]))
                    /\ \A mj \in ScanFiles(kn[1], kn[2]) :
                          Cardinality({i \in 1..Len(rows) :
                              rows[i]["filename"].v = ScanFileName(kn[1], kn[2], mj)}) = 1

\* C18 witness: the run has completed for a session with the folders anat, fmap, dwi
\* and pet of one file each, and its TSV has the three rows of anat, dwi and pet.
C18_Witness ==
    /\ w_status = "done"
    /\ Len(bids_dir[1][1].folders) = 4
    /\ bids_dir[1][1].tsv.k = "tsv"
    /\ Len(bids_dir[1][1].tsv.rows) = 3
    /\ bids_dir[1][1].tsv.rows[1]["filename"].v = "anat / T1w.nii.gz"
    /\ bids_dir[1][1].tsv.rows[2]["filename"].v = "dwi / dwi.nii.gz"
    /\ bids_dir[1][1].tsv.rows[3]["filename"].v = "pet / trc-18FFMM_pet.nii.gz"

---------------------------------------------------------------------------
(* Claims about the specification files (SpecBuilders) *)

\* C20: when the specification file of a category is not there, the builder of the
\* category fails with a file-not-found error that names the place where the file was
\* expected, and no output file was created, changed or deleted: no participants
\* table, no sessions table, and every scans TSV of the earlier run still in place.
C20_MissingSpecificationsFailFirst ==
    /\ ("participant.tsv" \notin clinical_specifications_folder /\ p_status # "start") =>
          /\ p_status = "failed"
          /\ "specifications/participant.tsv" \in not_found
          /\ participants_tsv = <<>>
    /\ ("sessions.tsv" \notin clinical_specifications_folder /\ s_status # "start") =>
          /\ s_status = "failed"
          /\ "specifications/sessions.tsv" \in not_found
          /\ sessions_tsv = <<>>
    /\ ("scans.tsv" \notin clinical_specifications_folder /\ c_status # "start") =>
          /\ c_status = "failed"
          /\ "specifications/scans.tsv" \in not_found
          /\ w_calls = <<>>
          /\ \A kn \in StoreSessions : bids_dir[kn[1]][kn[2]].tsv = OldTsv

\* C20 witness: no specification file is there and the three builders have failed,
\* each with its error; the scans TSV of the earlier run is on disk.
C20_Witness ==
    /\ clinical_specifications_folder = {}
    /\ p_status = "failed" /\ s_status = "failed" /\ c_status = "failed"
    /\ not_found = {"specifications/participant.tsv", "specifications/sessions.tsv",
                    "specifications/scans.tsv"}
    /\ participants_tsv = <<>> /\ sessions_tsv = <<>>
    /\ bids_dir[1][1].tsv = OldTsv

---------------------------------------------------------------------------
(* Claims about the clinical files (SpecBuilders) *)

\* the first mapping row of the table whose pattern matches no file is named by the
\* error
FirstUnmatchedIsNamed(files, specifications) ==
    \E k \in UnmatchedRows(files, specifications) :
        /\ \A j \in UnmatchedRows(files, specifications) : k <= j
        /\ PatternNotFound(specifications[k].location) \in not_matched

\* C21: when a mapping row of a builder's specification names a pattern that matches
\* no file of the clinical folder, the builder fails with the file-not-found error
\* that names the pattern and the folder, and writes nothing: the participants table
\* is not written, no sessions table is written, the scan store is never complete
\* and no scans TSV is touched.
C21_UnmatchedPatternAborts ==
    /\ ( /\ p_status # "start"
         /\ "participant.tsv" \in clinical_specifications_folder
         /\ UnmatchedRows(p_in.files, ParticipantSpecifications) # {} ) =>
            /\ p_status = "failed"
            /\ participants_tsv = <<>>
            /\ FirstUnmatchedIsNamed(p_in.files, ParticipantSpecifications)
    /\ ( /\ "sessions.tsv" \in clinical_specifications_folder
         /\ UnmatchedRows(s_in.files, SessionSpecifications) # {} ) =>
            /\ s_status # "done"
            /\ sessions_tsv = <<>>
            /\ s_status = "failed" => FirstUnmatchedIsNamed(s_in.files, SessionSpecifications)
    /\ ( /\ "scans.tsv" \in clinical_specifications_folder
         /\ UnmatchedRows(c_in.files, ScansSpecifications) # {} ) =>
            /\ c_status # "done"
            /\ w_calls = <<>>
            /\ \A k \in 1..Len(bids_dir) : \A n \in 1..Len(bids_dir[k]) :
                  bids_dir[k][n].tsv = OldTsv
            /\ c_status = "failed" => FirstUnmatchedIsNamed(c_in.files, ScansSpecifications)

\* the three builders failed on the patterns of the demographics and of the MR file
C21_Witness ==
    /\ clinical_specifications_folder = SpecificationFiles
    /\ p_status = "failed" /\ s_status = "failed" /\ c_status = "failed"
    /\ not_matched = {PatternNotFound("aibl_ptdemog_*.csv"),
                      PatternNotFound("aibl_mrimeta_*.csv")}
    /\ c_row = 1
    /\ participants_tsv = <<>> /\ sessions_tsv = <<>> /\ w_calls = <<>>

---------------------------------------------------------------------------
(* Claims about aggregator (SpecAggregator) *)

\* what the i-th call of the function receives for an argument
ElementAt(arg, i) == IF IsIterableArg(arg) THEN arg.v[i] ELSE arg

\* C22: a call with at least one non-string iterable argument of length n returns the
\* list of the n results, the i-th being the function applied to the i-th element of
\* every iterable argument and to every other argument unchanged; a call with no
\* iterable argument returns the plain result; a call with iterable arguments of
\* different lengths raises ValueError.
C22_AggregatorContract ==
    g_out # Pending =>
        LET args == g_in.args
            kwargs == g_in.kwargs
            sizes == ArgSizes(args, kwargs)
        IN  IF sizes = {} THEN g_out = Func(args, kwargs)
            ELSE IF Cardinality(sizes) > 1 THEN g_out = RaisedError("ValueError")
            ELSE \E n \in sizes :
                    g_out = ListV([i \in 1..n |->
                                     Func([j \in 1..Len(args) |-> ElementAt(args[j], i)],
                                          [name \in DOMAIN kwargs |->
                                              ElementAt(kwargs[name], i)])])

---------------------------------------------------------------------------
(* Claims about the examination dates of the sessions builder (SpecSessions) *)

\* the value is this text
IsText(x, text) == x.k = "str" /\ x.v = text

\* the lines of a file for the subject and the session that carry a date: the field
\* is neither empty nor -4
DatedLines(lines, rid, session) ==
    SelectSeq(lines, LAMBDA line : /\ IsIntText(line[1]) /\ TextToInt(line[1]) = rid
                                   /\ CanConvertViscode(line[2])
                                   /\ ViscodeToSession(line[2]) = session
                                   /\ line[3] \notin {<<>>, MissingCode})

\* the date of the first file, in the fixed order, that has such a line; "n/a" when
\* no file has one
AlternativeDate(files, rid, session) ==
    LET dated == SelectSeq(AlternativeExamDatePatterns,
                           LAMBDA pattern : /\ pattern \in DOMAIN files
                                            /\ DatedLines(files[pattern], rid, session) # <<>>)
    IN  IF dated = <<>> THEN NA
        ELSE DatedLines(files[dated[1]], rid, session)[1][3]

\* the rows of the e-th subject after the join, the sort, the replacement of the
\* missing values and the mapping of the diagnosis
PrimaryRows(e) ==
    MappedSessions(JoinSessions(s_in.files,
                                TextToInt(ToOriginalStudyId(s_in.bids[e].subject)),
                                s_in.bids[e].sessions, Len(SessionSpecifications)).rows)

\* the rows written for the e-th subject that carry the session label of the row
WrittenFor(e, row) ==
    {r \in 1..Len(sessions_tsv[e].rows) :
        sessions_tsv[e].rows[r]["session_id"] = row["session_id"]}

\* C23: for a session row that the primary join leaves without examination date, the
\* date written is the date of the matching subject and session row of the first
\* file, in the order mri3meta, mrimeta, cdr, flutemeta, mmse, pibmeta, that has such a
\* row with a date that is neither absent nor -4; a file whose matching row has a
\* missing date does not stop the search, and when no file qualifies "n/a" is written.
C23_FirstDatedFileResolves ==
    \A e \in 1..Len(sessions_tsv) :
        \A i \in 1..Len(PrimaryRows(e)) :
            LET row == PrimaryRows(e)[i].row
            IN  (~Truthy(row["examination_date"]) /\ Truthy(row["session_id"])) =>
                    \A r \in WrittenFor(e, row) :
                        IsText(sessions_tsv[e].rows[r]["examination_date"],
                               AlternativeDate(s_in.files,
                                               TextToInt(ToOriginalStudyId(s_in.bids[e].subject)),
                                               row["session_id"].v))

\* the value is the missing-value code, as text or as a number
IsMissingCode(x) == (IsNumber(x) /\ x.v = -4) \/ IsText(x, MissingCode)

\* the rows of the e-th subject after the join and the sort
JoinedRows(e) ==
    SortIndex(JoinSessions(s_in.files, TextToInt(ToOriginalStudyId(s_in.bids[e].subject)),
                           s_in.bids[e].sessions, Len(SessionSpecifications)).rows)

\* C24: a primary examination date coded -4 is replaced before the diagnosis is mapped,
\* the date resolved and the age derived: the row is handled as a row without date, and
\* the examination date written for it is never -4.
C24_MissingCodeNeverWritten ==
    \A e \in 1..Len(sessions_tsv) :
        \A i \in 1..Len(JoinedRows(e)) :
            LET row == JoinedRows(e)[i].row
            IN  IsMissingCode(row["examination_date"]) =>
                    /\ ~Truthy(PrimaryRows(e)[i].row["examination_date"])
                    /\ \A r \in WrittenFor(e, row) :
                          ~IsMissingCode(sessions_tsv[e].rows[r]["examination_date"])

\* the birth dates that the rows of the e-th subject carry
KnownBirthDates(e) ==
    {PrimaryRows(e)[i].row["date_of_birth"] :
        i \in {j \in 1..Len(PrimaryRows(e)) : ~IsNA(PrimaryRows(e)[j].row["date_of_birth"])}}

\* C25: for a subject whose joined rows carry exactly one distinct birth date, every
\* row written with a resolved examination date has age = year of the examination
\* minus year of birth, whichever rows carry the birth date and wherever they stand
\* in the order of the sessions.
C25_AgeOnEveryDatedRow ==
    \A e \in 1..Len(sessions_tsv) :
        Cardinality(KnownBirthDates(e)) = 1 =>
            \A r \in 1..Len(sessions_tsv[e].rows) :
                LET row == sessions_tsv[e].rows[r]
                    birth == CHOOSE b \in KnownBirthDates(e) : TRUE
                IN  (row["examination_date"].k = "str" /\ IsExamText(row["examination_date"].v)) =>
                        /\ IsNumber(row["age"])
                        /\ row["age"].v = ExamYear(row["examination_date"].v) - BirthYear(birth.v)

---------------------------------------------------------------------------
(* Claims about the lookups of the scans builder (SpecScans) *)

\* the lines of a file for a subject and a session
MatchingLines(lines, subject, session) ==
    SelectSeq(lines, LAMBDA line : /\ line[1] = ToOriginalStudyId(subject)
                                   /\ ViscodeToSession(line[2]) = session)

\* the slot of the store for a subject, a session and a mapping row
HasSlot(scans, k, n, row) ==
    row.bids \in DOMAIN scans[k].sessions[n].modalities[row.modalities]

Slot(scans, k, n, row) == scans[k].sessions[n].modalities[row.modalities][row.bids]

\* C26: when the file of a mapping row has no line, or more than one line, for a known
\* subject and session, the step of that mapping row gives the slot "n/a" (a slot that
\* already holds a value keeps it), and goes on with the other subjects and sessions:
\* a step in which no subject and session has exactly one line never aborts.
C26_NotOneRowGivesNA ==
    [][(c_status = "running" /\ c_row <= Len(ScansSpecifications)) =>
        LET row == ScansSpecifications[c_row]
            lines == c_in.files[row.location]
            NotOne(k, n) ==
                Len(MatchingLines(lines, scans_dict[k].subject,
                                  scans_dict[k].sessions[n].session)) # 1
        IN  (\A i \in 1..Len(lines) : ~IsBadLine(lines[i])) =>
                /\ (\A k \in 1..Len(scans_dict) : \A n \in 1..Len(scans_dict[k].sessions) :
                        NotOne(k, n)) => c_status' # "failed"
                /\ c_status' # "failed" =>
                      \A k \in 1..Len(scans_dict) : \A n \in 1..Len(scans_dict[k].sessions) :
                          NotOne(k, n) =>
                              /\ HasSlot(scans_dict', k, n, row)
                              /\ Slot(scans_dict', k, n, row) =
                                    IF HasSlot(scans_dict, k, n, row)
                                       /\ Slot(scans_dict, k, n, row) # Str(NA)
                                    THEN Slot(scans_dict, k, n, row)
                                    ELSE Str(NA)]_vars

\* C26 witness: the MR file has two lines with a date for the first session and none
\* for the second; its mapping row was processed and both slots hold "n/a".
C26_Witness ==
    /\ c_status = "running" /\ c_row = 2
    /\ Len(c_in.bids[1].sessions) = 2
    /\ Len(c_in.files["aibl_mrimeta_*.csv"]) = 2
    /\ \A i \in 1..2 : /\ c_in.files["aibl_mrimeta_*.csv"][i][2] = Baseline
                        /\ c_in.files["aibl_mrimeta_*.csv"][i][3] = ExamDate2010
    /\ Slot(scans_dict, 1, 1, ScansSpecifications[1]) = Str(NA)
    /\ Slot(scans_dict, 1, 2, ScansSpecifications[1]) = Str(NA)

\* the value the m-th mapping row resolves to for a subject and a session
ResolvedFor(m, k, n) ==
    ScanValue(ReadCsv(c_in.files[ScansSpecifications[m].location],
                      OnBadLines(ScansSpecifications[m].location)).rows,
              TextToInt(ToOriginalStudyId(c_in.bids[k].subject)),
              c_in.bids[k].sessions[n], ScansSpecifications[m]).value

\* the mapping rows already processed that target the slot of the m-th row
ProcessedFor(m) ==
    {j \in 1..(c_row - 1) : /\ ScansSpecifications[j].modalities = ScansSpecifications[m].modalities
                            /\ ScansSpecifications[j].bids = ScansSpecifications[m].bids}

\* C27: a slot that holds "n/a" after an earlier mapping row takes the value of the
\* next mapping row of the same modality group and field that resolves to another
\* value: after any number of mapping rows the slot holds the value of the first of
\* them, in file order, that resolved to a value other than "n/a", or "n/a" if none did.
C27_FirstResolvedValueStays ==
    c_status \in {"running", "done"} =>
        \A m \in 1..(c_row - 1) :
            \A k \in 1..Len(scans_dict) : \A n \in 1..Len(scans_dict[k].sessions) :
                LET resolved == {j \in ProcessedFor(m) : ResolvedFor(j, k, n) # Str(NA)}
                IN  /\ HasSlot(scans_dict, k, n, ScansSpecifications[m])
                    /\ Slot(scans_dict, k, n, ScansSpecifications[m]) =
                          IF resolved = {} THEN Str(NA)
                          ELSE ResolvedFor(CHOOSE j \in resolved : \A i \in resolved : j <= i,
                                           k, n)

\* C27 witness: the first mapping row of the MR group resolved to "n/a", the second to
\* 2011-01-20, and at the end the slot holds 2011-01-20.
C27_Witness ==
    /\ c_status = "done"
    /\ ScansSpecifications[1].modalities = MRGroup /\ ScansSpecifications[2].modalities = MRGroup
    /\ ResolvedFor(1, 1, 1) = Str(NA)
    /\ ResolvedFor(2, 1, 1) = Str(<<"2", "0", "1", "1", "-", "0", "1", "-", "2", "0",
                                    "T", "0", "0", ":", "0", "0", ":", "0", "0">>)
    /\ Slot(scans_dict, 1, 1, ScansSpecifications[2]) = ResolvedFor(2, 1, 1)

\* C28: a source value of -4 is stored as "n/a", whether pandas read the column as
\* text or as numbers, and is never handed to the formatting of the acquisition time:
\* the step of a mapping row whose file has, for a known subject and session, one line
\* with the value -4 does not abort, and the slot holds "n/a" afterwards unless it
\* held another value before.
C28_MissingCodeStoredAsNA ==
    [][(c_status = "running" /\ c_row <= Len(ScansSpecifications)) =>
        LET row == ScansSpecifications[c_row]
            lines == c_in.files[row.location]
            Coded(k, n) ==
                LET matching == MatchingLines(lines, scans_dict[k].subject,
                                              scans_dict[k].sessions[n].session)
                IN  Len(matching) = 1 /\ matching[1][3] = MissingCode
        IN  (\A i \in 1..Len(lines) : ~IsBadLine(lines[i])) =>
                \A k \in 1..Len(scans_dict) : \A n \in 1..Len(scans_dict[k].sessions) :
                    Coded(k, n) =>
                        /\ c_status' # "failed"
                        /\ HasSlot(scans_dict', k, n, row)
                        /\ Slot(scans_dict', k, n, row) =
                              IF HasSlot(scans_dict, k, n, row)
                                 /\ Slot(scans_dict, k, n, row) # Str(NA)
                              THEN Slot(scans_dict, k, n, row)
                              ELSE Str(NA)]_vars

---------------------------------------------------------------------------
(* Claims about mapping rows for one field (SpecBuilders) *)

\* the last mapping row of the table that targets the field
LastRowFor(specifications, field) ==
    specifications[CHOOSE k \in 1..Len(specifications) :
                      /\ specifications[k].bids = field
                      /\ \A j \in 1..Len(specifications) :
                            specifications[j].bids = field => j <= k]

\* the participants table was written from a table with two rows for the field sex:
\* the first subject has the sex that the later row gives
SexOfLaterRow ==
    LET row == LastRowFor(ParticipantSpecifications, "sex")
    IN  participants_tsv[1]["sex"] =
            NormalizeNA(MapSex(AsTypeStr(ReadColumn(p_in.files[row.location], row.column))[1]))

\* the sessions table was written from a table with two rows for the field
\* examination_date: the first session has the date that the later row gives
DateOfLaterRow ==
    LET row == LastRowFor(SessionSpecifications, "examination_date")
    IN  /\ s_status = "done"
        /\ sessions_tsv[1].rows[1]["examination_date"] =
              ReadColumn(s_in.files[row.location], row.column)[1]

\* C29: when two mapping rows of the loaded specification target one BIDS field, the
\* table written by the participants builder and by the sessions builder has one
\* column of that name, with the values of the later mapping row.
C29_LaterMappingRowWins ==
    /\ ( /\ p_status = "done"
         /\ IsDuplicated(ParticipantSpecifications, "sex") ) => SexOfLaterRow
    /\ ( /\ s_status \in {"done", "failed"}
         /\ "sessions.tsv" \in clinical_specifications_folder
         /\ UnmatchedRows(s_in.files, SessionSpecifications) = {}
         /\ IsDuplicated(SessionSpecifications, "examination_date") ) => DateOfLaterRow

---------------------------------------------------------------------------
(* Claims about the order of create_scans_tsv_file (SpecScansTsv) *)

\* C30: the scan store is built in full before any output is touched: as long as
\* _create_scans_dict has not returned, no step deletes or writes a scans TSV, and a
\* run whose store building failed (missing specification, missing source file,
\* unknown visit code, unknown modality group) stays failed, so that it never deletes
\* or writes one.
C30_StoreBuiltBeforeOutputs ==
    [][c_status # "done" =>
          /\ bids_dir' = bids_dir
          /\ w_calls' = w_calls
          /\ c_status = "failed" => c_status' = "failed"]_vars

\* C30 witness: the store building failed on the last mapping row, whose modality
\* group has no key, and the scans TSV of an earlier run is still on disk.
C30_Witness ==
    /\ c_status = "failed"
    /\ c_row = Len(AiblScansRows) + 1
    /\ ScansSpecifications = ScansRowsWithUnknownGroup
    /\ bids_dir[1][1].tsv = OldTsv
    /\ w_calls = <<>>
    /\ w_status = "session"

=============================================================================
